---- MODULE Spec2Model ----
(***************************************************************************)
(* Part / BOM store: PartBomStoreService (part-bom-store.service.ts) over  *)
(* the relational store declared in migration.sql (tables parts,           *)
(* bom_links, audit_logs), with BomService in front of it.                 *)
(*                                                                         *)
(* Strings are sequences of character codes (ASCII), so that trimming,     *)
(* upper-casing, zero-padding and the /^PRT-(\d+)$/ match are computed.    *)
(* An optional value is <<>> (undefined) or <<v>>.  A quantity input is    *)
(* <<>> (undefined), <<n>> (the integer n) or <<n, d>> (the non-integer    *)
(* n + d/10).                                                              *)
(***************************************************************************)
EXTENDS Integers, Sequences, FiniteSets, Bags, TLC

VARIABLES
    parts,               \* table parts: rows [id, partNumber, name]
    links,               \* table bom_links: rows [parentId, childId, quantity]
    audit,               \* table audit_logs in insertion (timestamp) order
    partIdSequence,      \* in-memory counter of the service
    auditLogSequence,    \* in-memory counter of the service
    partNumberSequence,  \* in-memory counter of the service
    resp,                \* the last call that ran to completion and its answer
    calls,               \* the bag of the overlapping calls, each where it stands
    issued               \* history kept under SpecNumbers: the part numbers held so far

vars == <<parts, links, audit, partIdSequence, auditLogSequence,
          partNumberSequence, resp, calls, issued>>

---------------------------------------------------------------------------
(* Bounds of the model *)

MaxParts == 3
MaxAudit == 7
MaxFaultAudit == 5
MaxTreeLinks == 4
MaxCalls == 2

---------------------------------------------------------------------------
(* Strings *)

IsSpace(c) == c \in {9, 10, 11, 12, 13, 32}

RECURSIVE TrimStart(_)
TrimStart(s) ==
    IF s # <<>> /\ IsSpace(Head(s)) THEN TrimStart(Tail(s)) ELSE s

RECURSIVE TrimEnd(_)
TrimEnd(s) ==
    IF s # <<>> /\ IsSpace(s[Len(s)]) THEN TrimEnd(SubSeq(s, 1, Len(s) - 1)) ELSE s

Trim(s) == TrimEnd(TrimStart(s))

ToUpperCase(s) == [i \in 1..Len(s) |-> IF s[i] \in 97..122 THEN s[i] - 32 ELSE s[i]]

ToLowerCase(s) == [i \in 1..Len(s) |-> IF s[i] \in 65..90 THEN s[i] + 32 ELSE s[i]]

\* sub occurs in s
Contains(s, sub) ==
    \E i \in 0..(Len(s) - Len(sub)) : SubSeq(s, i + 1, i + Len(sub)) = sub

\* contains with mode 'insensitive'
ContainsInsensitive(s, sub) == Contains(ToLowerCase(s), ToLowerCase(sub))

RECURSIVE DigitsOf(_)
DigitsOf(n) ==
    IF n < 10 THEN <<48 + n>> ELSE DigitsOf(n \div 10) \o <<48 + (n % 10)>>

RECURSIVE PadStart(_, _, _)
PadStart(s, targetLength, c) ==
    IF Len(s) >= targetLength THEN s ELSE PadStart(<<c>> \o s, targetLength, c)

RECURSIVE ParseInt(_)
ParseInt(digits) ==
    IF digits = <<>> THEN 0
    ELSE 10 * ParseInt(SubSeq(digits, 1, Len(digits) - 1)) + (digits[Len(digits)] - 48)

\* /^<prefix>(\d+)$/ : the prefix, then one or more decimal digits, nothing else
MatchesNumbered(prefix, s) ==
    /\ Len(s) > Len(prefix)
    /\ SubSeq(s, 1, Len(prefix)) = prefix
    /\ \A i \in (Len(prefix) + 1)..Len(s) : s[i] \in 48..57

NumberedValue(prefix, s) == ParseInt(SubSeq(s, Len(prefix) + 1, Len(s)))

RECURSIVE StrLess(_, _)
StrLess(a, b) ==
    IF b = <<>> THEN FALSE
    ELSE IF a = <<>> THEN TRUE
    ELSE IF Head(a) # Head(b) THEN Head(a) < Head(b)
    ELSE StrLess(Tail(a), Tail(b))

PartIdPrefix == <<80, 65, 82, 84, 45>>      \* "PART-"
AuditIdPrefix == <<65, 85, 68, 45>>         \* "AUD-"
PartNumberPrefix == <<80, 82, 84, 45>>      \* "PRT-"

PartIdOf(n) == PartIdPrefix \o PadStart(DigitsOf(n), 4, 48)
AuditIdOf(n) == AuditIdPrefix \o PadStart(DigitsOf(n), 6, 48)
PartNumberOf(n) == PartNumberPrefix \o PadStart(DigitsOf(n), 6, 48)

---------------------------------------------------------------------------
(* The service state as one value: the three tables and the three counters *)

State ==
    [parts |-> parts, links |-> links, audit |-> audit,
     partIdSequence |-> partIdSequence,
     auditLogSequence |-> auditLogSequence,
     partNumberSequence |-> partNumberSequence]

EmptyState ==
    [parts |-> {}, links |-> {}, audit |-> <<>>,
     partIdSequence |-> 1, auditLogSequence |-> 1, partNumberSequence |-> 1]

\* Mutant of Rollback: the writes made before the failure stay
RollbackKeepsWrites(before, now) == now

\* A rolled-back transaction: the tables as before, the counters as they are
Rollback(before, now) ==
    [now EXCEPT !.parts = before.parts, !.links = before.links,
                !.audit = before.audit]

Outcome(st, result, value) == [st |-> st, result |-> result, value |-> value]

---------------------------------------------------------------------------
(* Table access *)

PartsById(st, id) == {p \in st.parts : p.id = id}
PartsByNumber(st, partNumber) == {p \in st.parts : p.partNumber = partNumber}
PartOf(st, id) == CHOOSE p \in st.parts : p.id = id

FindLink(st, parentId, childId) ==
    {l \in st.links : l.parentId = parentId /\ l.childId = childId}

AuditIds(st) == {st.audit[i].id : i \in 1..Len(st.audit)}

\* Mutant of PartInsertable: the table has no unique index on part_number
PartInsertableNoNumberKey(st, row) == PartsById(st, row.id) = {}

\* tx.part.create: parts_pkey and parts_part_number_key
PartInsertable(st, row) ==
    /\ PartsById(st, row.id) = {}
    /\ PartsByNumber(st, row.partNumber) = {}

\* Mutant of LinkInsertable: the table has no primary key on the pair
LinkInsertableNoKey(st, row) ==
    /\ row.quantity > 0
    /\ PartsById(st, row.parentId) # {}
    /\ PartsById(st, row.childId) # {}

\* tx.bomLink.create: bom_links_pkey, the quantity check, the two foreign keys
LinkInsertable(st, row) ==
    /\ FindLink(st, row.parentId, row.childId) = {}
    /\ row.quantity > 0
    /\ PartsById(st, row.parentId) # {}
    /\ PartsById(st, row.childId) # {}

requirePart(st, partId) == PartsById(st, partId) # {}

allocatePartId(st) ==
    [id |-> PartIdOf(st.partIdSequence),
     st |-> [st EXCEPT !.partIdSequence = @ + 1]]

allocateAuditLogId(st) ==
    [id |-> AuditIdOf(st.auditLogSequence),
     st |-> [st EXCEPT !.auditLogSequence = @ + 1]]

RECURSIVE allocatePartNumber(_)
allocatePartNumber(st) ==
    LET candidate == PartNumberOf(st.partNumberSequence)
        next == [st EXCEPT !.partNumberSequence = @ + 1]
    IN  IF PartsByNumber(st, candidate) = {}
        THEN [partNumber |-> candidate, st |-> next]
        ELSE allocatePartNumber(next)

assertPartNumberIsAvailable(st, partNumber, excludedPartId) ==
    \A p \in PartsByNumber(st, partNumber) : <<p.id>> = excludedPartId

updatePartNumberSequence(st, partNumber) ==
    IF ~MatchesNumbered(PartNumberPrefix, partNumber) THEN st
    ELSE LET parsedValue == NumberedValue(PartNumberPrefix, partNumber)
         IN  [st EXCEPT !.partNumberSequence =
                            IF @ > parsedValue + 1 THEN @ ELSE parsedValue + 1]

\* writeAudit: the id is allocated, then the row is inserted; failHere is a
\* failure of the insert (the store rejects or loses the write)
\* Mutant of writeAudit: the entry takes the place of the part's earlier entries
writeAuditLatestOnly(st, partId, action, failHere) ==
    LET a == allocateAuditLogId(st)
        row == [id |-> a.id, partId |-> partId, action |-> action]
        accepted == /\ ~failHere
                    /\ a.id \notin AuditIds(st)
                    /\ PartsById(st, partId) # {}
        others == SelectSeq(st.audit, LAMBDA r : r.partId # partId)
    IN  [ok |-> accepted,
         st |-> IF accepted THEN [a.st EXCEPT !.audit = Append(others, row)] ELSE a.st]

writeAudit(st, partId, action, failHere) ==
    LET a == allocateAuditLogId(st)
        row == [id |-> a.id, partId |-> partId, action |-> action]
        accepted == /\ ~failHere
                    /\ a.id \notin AuditIds(st)
                    /\ PartsById(st, partId) # {}
    IN  [ok |-> accepted,
         st |-> IF accepted THEN [a.st EXCEPT !.audit = Append(@, row)] ELSE a.st]

\* resolveNextSequence: one more than the largest number among the values
\* that match the pattern, 1 when none matches
resolveNextSequence(values, prefix) ==
    LET parsed == {NumberedValue(prefix, v) : v \in {w \in values : MatchesNumbered(prefix, w)}}
        max == IF parsed = {} THEN 0
               ELSE CHOOSE m \in parsed : \A n \in parsed : n <= m
    IN  max + 1

\* initializeSequences (onModuleInit): the three counters are derived from
\* the rows in the store
initializeSequences(st) ==
    [st EXCEPT !.partIdSequence =
                   resolveNextSequence({p.id : p \in st.parts}, PartIdPrefix),
               !.auditLogSequence =
                   resolveNextSequence(AuditIds(st), AuditIdPrefix),
               !.partNumberSequence =
                   resolveNextSequence({p.partNumber : p \in st.parts}, PartNumberPrefix)]

---------------------------------------------------------------------------
(* Part registry.  fault = 0: the store accepts every write of the          *)
(* transaction; fault = k > 0: its k-th write fails and the transaction is  *)
(* rolled back.                                                             *)

createPartTx(st, partNumber, name, fault) ==
    LET a == allocatePartId(st)
        row == [id |-> a.id, partNumber |-> partNumber, name |-> name]
    IN  IF fault = 1 \/ ~PartInsertable(a.st, row)
        THEN Outcome(Rollback(st, a.st), "StorageError", <<>>)
        ELSE LET s1 == [a.st EXCEPT !.parts = @ \cup {row}]
                 s2 == updatePartNumberSequence(s1, row.partNumber)
                 w == writeAudit(s2, row.id, "PART_CREATED", fault = 2)
             IN  IF w.ok THEN Outcome(w.st, "ok", <<row>>)
                 ELSE Outcome(Rollback(st, w.st), "StorageError", <<>>)

createPart(st, input, fault) ==
    LET normalizedName == Trim(input.name)
        requestedPartNumber ==
            IF input.partNumber = <<>> THEN <<>>
            ELSE ToUpperCase(Trim(input.partNumber[1]))
        alloc == IF requestedPartNumber # <<>>
                 THEN [partNumber |-> requestedPartNumber, st |-> st]
                 ELSE allocatePartNumber(st)
    IN  IF normalizedName = <<>> THEN Outcome(st, "PartNameRequired", <<>>)
        ELSE IF ~assertPartNumberIsAvailable(alloc.st, alloc.partNumber, <<>>)
        THEN Outcome(alloc.st, "PartNumberExists", <<>>)
        ELSE createPartTx(alloc.st, alloc.partNumber, normalizedName, fault)

updatePartTx(st, partId, nextPartNumber, nextName, fault) ==
    LET row == [id |-> partId, partNumber |-> nextPartNumber, name |-> nextName]
        others == {p \in st.parts : p.id # partId}
        accepted == /\ fault # 1
                    /\ PartsById(st, partId) # {}
                    /\ \A p \in others : p.partNumber # nextPartNumber
    IN  IF ~accepted THEN Outcome(st, "StorageError", <<>>)
        ELSE LET s1 == [st EXCEPT !.parts = others \cup {row}]
                 w == writeAudit(s1, partId, "PART_UPDATED", fault = 2)
             IN  IF w.ok THEN Outcome(w.st, "ok", <<row>>)
                 ELSE Outcome(Rollback(st, w.st), "StorageError", <<>>)

\* Mutant of updatePart: a name that trims to empty is stored
updatePartBlankName(st, partId, input, fault) ==
    IF ~requirePart(st, partId) THEN Outcome(st, "PartNotFound", <<>>)
    ELSE
    LET part == PartOf(st, partId)
        nextName == IF input.name # <<>> THEN Trim(input.name[1]) ELSE part.name
        normalizedPartNumber ==
            IF input.partNumber = <<>> THEN part.partNumber
            ELSE ToUpperCase(Trim(input.partNumber[1]))
        changed == normalizedPartNumber # part.partNumber
    IN  IF normalizedPartNumber = <<>> THEN Outcome(st, "PartNumberEmpty", <<>>)
        ELSE IF changed /\ ~assertPartNumberIsAvailable(st, normalizedPartNumber, <<partId>>)
        THEN Outcome(st, "PartNumberExists", <<>>)
        ELSE updatePartTx(IF changed
                          THEN updatePartNumberSequence(st, normalizedPartNumber)
                          ELSE st,
                          partId, normalizedPartNumber, nextName, fault)

updatePart(st, partId, input, fault) ==
    IF ~requirePart(st, partId) THEN Outcome(st, "PartNotFound", <<>>)
    ELSE
    LET part == PartOf(st, partId)
        nextName == IF input.name # <<>> THEN Trim(input.name[1]) ELSE part.name
        normalizedPartNumber ==
            IF input.partNumber = <<>> THEN part.partNumber
            ELSE ToUpperCase(Trim(input.partNumber[1]))
        changed == normalizedPartNumber # part.partNumber
    IN  IF nextName = <<>> THEN Outcome(st, "PartNameEmpty", <<>>)
        ELSE IF normalizedPartNumber = <<>> THEN Outcome(st, "PartNumberEmpty", <<>>)
        ELSE IF changed /\ ~assertPartNumberIsAvailable(st, normalizedPartNumber, <<partId>>)
        THEN Outcome(st, "PartNumberExists", <<>>)
        ELSE updatePartTx(IF changed
                          THEN updatePartNumberSequence(st, normalizedPartNumber)
                          ELSE st,
                          partId, normalizedPartNumber, nextName, fault)

\* orderBy partNumber asc (part numbers are unique, so there are no ties)
RECURSIVE OrderByPartNumber(_)
OrderByPartNumber(rows) ==
    IF rows = {} THEN <<>>
    ELSE LET first == CHOOSE r \in rows : \A o \in rows :
                          ~StrLess(o.partNumber, r.partNumber)
         IN  <<first>> \o OrderByPartNumber(rows \ {first})

\* filters.x?.trim(): <<>> when the filter is undefined or blank
TrimmedFilter(filter) == IF filter = <<>> THEN <<>> ELSE Trim(filter[1])

\* Mutant of searchParts: q is matched against the name only
searchPartsNameOnly(st, filters) ==
    LET byPartNumber == TrimmedFilter(filters.partNumber)
        byName == TrimmedFilter(filters.name)
        byAny == TrimmedFilter(filters.q)
        rows == {p \in st.parts :
                    /\ byPartNumber # <<>> => ContainsInsensitive(p.partNumber, byPartNumber)
                    /\ byName # <<>> => ContainsInsensitive(p.name, byName)
                    /\ byAny # <<>> => ContainsInsensitive(p.name, byAny)}
        ordered == OrderByPartNumber(rows)
    IN  Outcome(st, "ok",
                <<[i \in 1..Len(ordered) |->
                      [id |-> ordered[i].id, partNumber |-> ordered[i].partNumber,
                       name |-> ordered[i].name]]>>)

searchParts(st, filters) ==
    LET byPartNumber == TrimmedFilter(filters.partNumber)
        byName == TrimmedFilter(filters.name)
        byAny == TrimmedFilter(filters.q)
        rows == {p \in st.parts :
                    /\ byPartNumber # <<>> => ContainsInsensitive(p.partNumber, byPartNumber)
                    /\ byName # <<>> => ContainsInsensitive(p.name, byName)
                    /\ byAny # <<>> => \/ ContainsInsensitive(p.name, byAny)
                                       \/ ContainsInsensitive(p.partNumber, byAny)}
        ordered == OrderByPartNumber(rows)
    IN  Outcome(st, "ok",
                <<[i \in 1..Len(ordered) |->
                      [id |-> ordered[i].id, partNumber |-> ordered[i].partNumber,
                       name |-> ordered[i].name]]>>)

\* getPartAuditLogs: the part's entries, the latest first (audit is kept in
\* the order of the timestamps)
RECURSIVE LatestFirst(_, _)
LatestFirst(rows, partId) ==
    IF rows = <<>> THEN <<>>
    ELSE LET rest == LatestFirst(SubSeq(rows, 1, Len(rows) - 1), partId)
             last == rows[Len(rows)]
         IN  IF last.partId = partId THEN <<last>> \o rest ELSE rest

getPartAuditLogs(st, partId) ==
    IF ~requirePart(st, partId) THEN Outcome(st, "PartNotFound", <<>>)
    ELSE Outcome(st, "ok", <<LatestFirst(st.audit, partId)>>)

---------------------------------------------------------------------------
(* BOM graph store *)

IsPositiveInteger(quantity) == Len(quantity) = 1 /\ quantity[1] > 0

\* input.quantity ?? 1
GivenQuantity(input) == IF input.quantity = <<>> THEN <<1>> ELSE input.quantity

ChildIdSet(st, partId) == {l.childId : l \in {r \in st.links : r.parentId = partId}}

\* The rows of a findMany without orderBy come in an order the store picks
RECURSIVE SomeOrder(_)
SomeOrder(S) ==
    IF S = {} THEN <<>>
    ELSE LET x == CHOOSE y \in S : TRUE IN <<x>> \o SomeOrder(S \ {x})

Orders(S) ==
    {s \in [1..Cardinality(S) -> S] : \A i, j \in 1..Cardinality(S) : i # j => s[i] # s[j]}

\* One turn of isReachable's while loop on the search state
\* [stack, visited, found]; childIds is what the store answers for the
\* popped part (the childIdsCache never answers instead: a part is looked
\* up only when it is not yet visited, and is visited from then on)
\* Mutant of isReachableStep: only the first child is pushed
isReachableStepFirstChild(search, targetPartId, childIds) ==
    LET partId == search.stack[Len(search.stack)]
        popped == SubSeq(search.stack, 1, Len(search.stack) - 1)
    IN  IF partId \in search.visited THEN [search EXCEPT !.stack = popped]
        ELSE IF partId = targetPartId THEN [search EXCEPT !.stack = popped, !.found = TRUE]
        ELSE [search EXCEPT !.stack = popped \o (IF childIds = <<>> THEN <<>>
                                                  ELSE <<childIds[1]>>),
                            !.visited = @ \cup {partId}]

isReachableStep(search, targetPartId, childIds) ==
    LET partId == search.stack[Len(search.stack)]
        popped == SubSeq(search.stack, 1, Len(search.stack) - 1)
    IN  IF partId \in search.visited THEN [search EXCEPT !.stack = popped]
        ELSE IF partId = targetPartId THEN [search EXCEPT !.stack = popped, !.found = TRUE]
        ELSE [search EXCEPT !.stack = popped \o childIds,
                            !.visited = @ \cup {partId}]

SearchFrom(startPartId) == [stack |-> <<startPartId>>, visited |-> {}, found |-> FALSE]
SearchDone(search) == search.found \/ search.stack = <<>>

RECURSIVE isReachableLoop(_, _, _)
isReachableLoop(st, search, targetPartId) ==
    IF SearchDone(search) THEN search.found
    ELSE isReachableLoop(st,
             isReachableStep(search, targetPartId,
                 SomeOrder(ChildIdSet(st, search.stack[Len(search.stack)]))),
             targetPartId)

\* Mutant of isReachable: no part is ever found below another
isReachableNever(st, startPartId, targetPartId) == FALSE

\* Mutant of isReachable: the search runs from the target towards the start
isReachableReversed(st, startPartId, targetPartId) ==
    isReachableLoop(st, SearchFrom(targetPartId), startPartId)

isReachable(st, startPartId, targetPartId) ==
    isReachableLoop(st, SearchFrom(startPartId), targetPartId)

createBomLinkTx(st, parentId, childId, quantity, fault) ==
    LET row == [parentId |-> parentId, childId |-> childId, quantity |-> quantity]
    IN  IF fault = 1 \/ ~LinkInsertable(st, row)
        THEN Outcome(st, "StorageError", <<>>)
        ELSE LET s1 == [st EXCEPT !.links = @ \cup {row}]
                 w1 == writeAudit(s1, parentId, "BOM_LINK_CREATED", fault = 2)
                 w2 == writeAudit(w1.st, childId, "BOM_LINK_CREATED", fault = 3)
             IN  IF ~w1.ok THEN Outcome(Rollback(st, w1.st), "StorageError", <<>>)
                 ELSE IF ~w2.ok THEN Outcome(Rollback(st, w2.st), "StorageError", <<>>)
                 ELSE Outcome(w2.st, "ok", <<row>>)

\* Mutant of createBomLink: neither the self-link nor the cycle is checked
createBomLinkUnchecked(st, input, fault) ==
    IF ~(requirePart(st, input.parentId) /\ requirePart(st, input.childId))
    THEN Outcome(st, "PartNotFound", <<>>)
    ELSE LET quantity == IF input.quantity = <<>> THEN <<1>> ELSE input.quantity
         IN  IF ~IsPositiveInteger(quantity) THEN Outcome(st, "InvalidQuantity", <<>>)
             ELSE IF FindLink(st, input.parentId, input.childId) # {}
             THEN Outcome(st, "LinkExists", <<>>)
             ELSE createBomLinkTx(st, input.parentId, input.childId, quantity[1], fault)

\* Mutant of createBomLink: the quantity is checked before the self-link
createBomLinkQuantityFirst(st, input, fault) ==
    IF ~(requirePart(st, input.parentId) /\ requirePart(st, input.childId))
    THEN Outcome(st, "PartNotFound", <<>>)
    ELSE LET quantity == IF input.quantity = <<>> THEN <<1>> ELSE input.quantity
         IN  IF ~IsPositiveInteger(quantity) THEN Outcome(st, "InvalidQuantity", <<>>)
             ELSE IF input.parentId = input.childId THEN Outcome(st, "SelfLink", <<>>)
             ELSE IF FindLink(st, input.parentId, input.childId) # {}
             THEN Outcome(st, "LinkExists", <<>>)
             ELSE IF isReachable(st, input.childId, input.parentId)
             THEN Outcome(st, "Cycle", <<>>)
             ELSE createBomLinkTx(st, input.parentId, input.childId, quantity[1], fault)

createBomLink(st, input, fault) ==
    IF ~(requirePart(st, input.parentId) /\ requirePart(st, input.childId))
    THEN Outcome(st, "PartNotFound", <<>>)
    ELSE IF input.parentId = input.childId THEN Outcome(st, "SelfLink", <<>>)
    ELSE LET quantity == IF input.quantity = <<>> THEN <<1>> ELSE input.quantity
         IN  IF ~IsPositiveInteger(quantity) THEN Outcome(st, "InvalidQuantity", <<>>)
             ELSE IF FindLink(st, input.parentId, input.childId) # {}
             THEN Outcome(st, "LinkExists", <<>>)
             ELSE IF isReachable(st, input.childId, input.parentId)
             THEN Outcome(st, "Cycle", <<>>)
             ELSE createBomLinkTx(st, input.parentId, input.childId, quantity[1], fault)

\* Mutant of updateBomLinkTx: the child's audit entry is not written
updateBomLinkTxOneAudit(st, parentId, childId, quantity, fault) ==
    LET old == FindLink(st, parentId, childId)
        row == [parentId |-> parentId, childId |-> childId, quantity |-> quantity]
    IN  IF fault = 1 \/ old = {} \/ quantity <= 0
        THEN Outcome(st, "StorageError", <<>>)
        ELSE LET s1 == [st EXCEPT !.links = (@ \ old) \cup {row}]
                 w1 == writeAudit(s1, parentId, "BOM_LINK_UPDATED", fault = 2)
             IN  IF ~w1.ok THEN Outcome(Rollback(st, w1.st), "StorageError", <<>>)
                 ELSE Outcome(w1.st, "ok", <<row>>)

\* Mutant of updateBomLinkTx: the quantity is written to every edge of the parent
updateBomLinkTxAllOfParent(st, parentId, childId, quantity, fault) ==
    LET old == FindLink(st, parentId, childId)
        ofParent == {l \in st.links : l.parentId = parentId}
        row == [parentId |-> parentId, childId |-> childId, quantity |-> quantity]
    IN  IF fault = 1 \/ old = {} \/ quantity <= 0
        THEN Outcome(st, "StorageError", <<>>)
        ELSE LET s1 == [st EXCEPT !.links = (@ \ ofParent) \cup
                                     {[l EXCEPT !.quantity = quantity] : l \in ofParent}]
                 w1 == writeAudit(s1, parentId, "BOM_LINK_UPDATED", fault = 2)
                 w2 == writeAudit(w1.st, childId, "BOM_LINK_UPDATED", fault = 3)
             IN  IF ~w1.ok THEN Outcome(Rollback(st, w1.st), "StorageError", <<>>)
                 ELSE IF ~w2.ok THEN Outcome(Rollback(st, w2.st), "StorageError", <<>>)
                 ELSE Outcome(w2.st, "ok", <<row>>)

updateBomLinkTx(st, parentId, childId, quantity, fault) ==
    LET old == FindLink(st, parentId, childId)
        row == [parentId |-> parentId, childId |-> childId, quantity |-> quantity]
    IN  IF fault = 1 \/ old = {} \/ quantity <= 0
        THEN Outcome(st, "StorageError", <<>>)
        ELSE LET s1 == [st EXCEPT !.links = (@ \ old) \cup {row}]
                 w1 == writeAudit(s1, parentId, "BOM_LINK_UPDATED", fault = 2)
                 w2 == writeAudit(w1.st, childId, "BOM_LINK_UPDATED", fault = 3)
             IN  IF ~w1.ok THEN Outcome(Rollback(st, w1.st), "StorageError", <<>>)
                 ELSE IF ~w2.ok THEN Outcome(Rollback(st, w2.st), "StorageError", <<>>)
                 ELSE Outcome(w2.st, "ok", <<row>>)

\* Mutant of updateBomLink: the edge is looked up before the quantity is checked
updateBomLinkExistenceFirst(st, input, fault) ==
    IF ~(requirePart(st, input.parentId) /\ requirePart(st, input.childId))
    THEN Outcome(st, "PartNotFound", <<>>)
    ELSE IF FindLink(st, input.parentId, input.childId) = {}
    THEN Outcome(st, "LinkNotFound", <<>>)
    ELSE IF ~IsPositiveInteger(input.quantity) THEN Outcome(st, "InvalidQuantity", <<>>)
    ELSE updateBomLinkTx(st, input.parentId, input.childId, input.quantity[1], fault)

updateBomLink(st, input, fault) ==
    IF ~(requirePart(st, input.parentId) /\ requirePart(st, input.childId))
    THEN Outcome(st, "PartNotFound", <<>>)
    ELSE IF ~IsPositiveInteger(input.quantity) THEN Outcome(st, "InvalidQuantity", <<>>)
    ELSE IF FindLink(st, input.parentId, input.childId) = {}
    THEN Outcome(st, "LinkNotFound", <<>>)
    ELSE updateBomLinkTx(st, input.parentId, input.childId, input.quantity[1], fault)

removeBomLinkTx(st, parentId, childId, fault) ==
    LET old == FindLink(st, parentId, childId)
    IN  IF fault = 1 \/ old = {}
        THEN Outcome(st, "StorageError", <<>>)
        ELSE LET s1 == [st EXCEPT !.links = @ \ old]
                 w1 == writeAudit(s1, parentId, "BOM_LINK_REMOVED", fault = 2)
                 w2 == writeAudit(w1.st, childId, "BOM_LINK_REMOVED", fault = 3)
             IN  IF ~w1.ok THEN Outcome(Rollback(st, w1.st), "StorageError", <<>>)
                 ELSE IF ~w2.ok THEN Outcome(Rollback(st, w2.st), "StorageError", <<>>)
                 ELSE Outcome(w2.st, "ok", <<>>)

removeBomLink(st, input, fault) ==
    IF ~(requirePart(st, input.parentId) /\ requirePart(st, input.childId))
    THEN Outcome(st, "PartNotFound", <<>>)
    ELSE IF FindLink(st, input.parentId, input.childId) = {}
    THEN Outcome(st, "LinkNotFound", <<>>)
    ELSE removeBomLinkTx(st, input.parentId, input.childId, fault)

---------------------------------------------------------------------------
(* BOM tree expansion.  depth and nodeLimit are given like a quantity:     *)
(* <<>> (the default applies), <<n>> or <<n, d>> (a non-integer).          *)

maxExpandDepth == 5
maxExpandNodeLimit == 80

toPartSummary(part) ==
    [id |-> part.id, partNumber |-> part.partNumber, name |-> part.name]

\* Mutant of OrderByChildPartNumber: the rows are ordered by the child's id
RECURSIVE OrderByChildId(_, _)
OrderByChildId(st, rows) ==
    IF rows = {} THEN <<>>
    ELSE LET first == CHOOSE r \in rows : \A o \in rows : ~StrLess(o.childId, r.childId)
         IN  <<first>> \o OrderByChildId(st, rows \ {first})

\* orderBy child.partNumber asc (part numbers are unique, so there are no ties)
RECURSIVE OrderByChildPartNumber(_, _)
OrderByChildPartNumber(st, rows) ==
    IF rows = {} THEN <<>>
    ELSE LET first == CHOOSE r \in rows : \A o \in rows :
                          ~StrLess(PartOf(st, o.childId).partNumber,
                                   PartOf(st, r.childId).partNumber)
         IN  <<first>> \o OrderByChildPartNumber(st, rows \ {first})

getChildLinks(st, parentId) ==
    OrderByChildPartNumber(st, {l \in st.links : l.parentId = parentId})

\* orderBy parent.partNumber asc
RECURSIVE OrderByParentPartNumber(_, _)
OrderByParentPartNumber(st, rows) ==
    IF rows = {} THEN <<>>
    ELSE LET first == CHOOSE r \in rows : \A o \in rows :
                          ~StrLess(PartOf(st, o.parentId).partNumber,
                                   PartOf(st, r.parentId).partNumber)
         IN  <<first>> \o OrderByParentPartNumber(st, rows \ {first})

\* Mutant of getPartDetails: the two counts are taken from each other's list
getPartDetailsCountsSwapped(st, partId) ==
    IF ~requirePart(st, partId) THEN Outcome(st, "PartNotFound", <<>>)
    ELSE LET part == PartOf(st, partId)
             parentLinks == OrderByParentPartNumber(st, {l \in st.links : l.childId = partId})
             childLinks == OrderByChildPartNumber(st, {l \in st.links : l.parentId = partId})
             parentParts == [i \in 1..Len(parentLinks) |->
                                toPartSummary(PartOf(st, parentLinks[i].parentId))]
             childParts == [i \in 1..Len(childLinks) |->
                               LET child == PartOf(st, childLinks[i].childId)
                               IN  [id |-> child.id, partNumber |-> child.partNumber,
                                    name |-> child.name,
                                    quantity |-> childLinks[i].quantity]]
         IN  Outcome(st, "ok",
                     <<[id |-> part.id, partNumber |-> part.partNumber, name |-> part.name,
                        parentCount |-> Len(childParts), childCount |-> Len(parentParts),
                        parentParts |-> parentParts, childParts |-> childParts]>>)

getPartDetails(st, partId) ==
    IF ~requirePart(st, partId) THEN Outcome(st, "PartNotFound", <<>>)
    ELSE LET part == PartOf(st, partId)
             parentLinks == OrderByParentPartNumber(st, {l \in st.links : l.childId = partId})
             childLinks == OrderByChildPartNumber(st, {l \in st.links : l.parentId = partId})
             parentParts == [i \in 1..Len(parentLinks) |->
                                toPartSummary(PartOf(st, parentLinks[i].parentId))]
             childParts == [i \in 1..Len(childLinks) |->
                               LET child == PartOf(st, childLinks[i].childId)
                               IN  [id |-> child.id, partNumber |-> child.partNumber,
                                    name |-> child.name,
                                    quantity |-> childLinks[i].quantity]]
         IN  Outcome(st, "ok",
                     <<[id |-> part.id, partNumber |-> part.partNumber, name |-> part.name,
                        parentCount |-> Len(parentParts), childCount |-> Len(childParts),
                        parentParts |-> parentParts, childParts |-> childParts]>>)

IsInteger(number) == Len(number) = 1

Thrown(nodeCount) == [ok |-> FALSE, nodeCount |-> nodeCount, node |-> <<>>, children |-> <<>>]

\* buildNode and the for loop over its child links; call carries what the
\* closure reads (st, depth, nodeLimit), nodeCount is threaded through.  The
\* two caches answer what the store answers, as the store does not change
\* during the call.
RECURSIVE buildNode(_, _, _, _, _, _), buildChildren(_, _, _, _, _)

\* Mutant of buildNode: the limit is compared one node too late
buildNodeLateLimit(call, partId, currentDepth, quantityFromParent, path, nodeCount) ==
    IF nodeCount > call.nodeLimit THEN Thrown(nodeCount)
    ELSE LET part == PartOf(call.st, partId)
             childLinks == getChildLinks(call.st, partId)
             built == IF currentDepth < call.depth
                      THEN buildChildren(call, childLinks, currentDepth, path, nodeCount + 1)
                      ELSE [ok |-> TRUE, nodeCount |-> nodeCount + 1, children |-> <<>>]
         IN  IF ~built.ok THEN Thrown(built.nodeCount)
             ELSE [ok |-> TRUE, nodeCount |-> built.nodeCount,
                   node |-> [part |-> toPartSummary(part),
                             hasChildren |-> childLinks # <<>>,
                             children |-> built.children,
                             quantityFromParent |-> quantityFromParent]]

\* Mutant of buildNode: the children of the nodes at the requested depth are built
buildNodeOneDeeper(call, partId, currentDepth, quantityFromParent, path, nodeCount) ==
    IF nodeCount >= call.nodeLimit THEN Thrown(nodeCount)
    ELSE LET part == PartOf(call.st, partId)
             childLinks == getChildLinks(call.st, partId)
             built == IF currentDepth <= call.depth
                      THEN buildChildren(call, childLinks, currentDepth, path, nodeCount + 1)
                      ELSE [ok |-> TRUE, nodeCount |-> nodeCount + 1, children |-> <<>>]
         IN  IF ~built.ok THEN Thrown(built.nodeCount)
             ELSE [ok |-> TRUE, nodeCount |-> built.nodeCount,
                   node |-> [part |-> toPartSummary(part),
                             hasChildren |-> childLinks # <<>>,
                             children |-> built.children,
                             quantityFromParent |-> quantityFromParent]]

\* Mutant of buildNode: hasChildren tells whether the node shows children
buildNodeShownChildren(call, partId, currentDepth, quantityFromParent, path, nodeCount) ==
    IF nodeCount >= call.nodeLimit THEN Thrown(nodeCount)
    ELSE LET part == PartOf(call.st, partId)
             childLinks == getChildLinks(call.st, partId)
             built == IF currentDepth < call.depth
                      THEN buildChildren(call, childLinks, currentDepth, path, nodeCount + 1)
                      ELSE [ok |-> TRUE, nodeCount |-> nodeCount + 1, children |-> <<>>]
         IN  IF ~built.ok THEN Thrown(built.nodeCount)
             ELSE [ok |-> TRUE, nodeCount |-> built.nodeCount,
                   node |-> [part |-> toPartSummary(part),
                             hasChildren |-> built.children # <<>>,
                             children |-> built.children,
                             quantityFromParent |-> quantityFromParent]]

\* Mutant of buildNode: no node carries a quantity
buildNodeNoQuantity(call, partId, currentDepth, quantityFromParent, path, nodeCount) ==
    IF nodeCount >= call.nodeLimit THEN Thrown(nodeCount)
    ELSE LET part == PartOf(call.st, partId)
             childLinks == getChildLinks(call.st, partId)
             built == IF currentDepth < call.depth
                      THEN buildChildren(call, childLinks, currentDepth, path, nodeCount + 1)
                      ELSE [ok |-> TRUE, nodeCount |-> nodeCount + 1, children |-> <<>>]
         IN  IF ~built.ok THEN Thrown(built.nodeCount)
             ELSE [ok |-> TRUE, nodeCount |-> built.nodeCount,
                   node |-> [part |-> toPartSummary(part),
                             hasChildren |-> childLinks # <<>>,
                             children |-> built.children,
                             quantityFromParent |-> <<>>]]

buildNode(call, partId, currentDepth, quantityFromParent, path, nodeCount) ==
    IF nodeCount >= call.nodeLimit THEN Thrown(nodeCount)
    ELSE LET part == PartOf(call.st, partId)
             childLinks == getChildLinks(call.st, partId)
             built == IF currentDepth < call.depth
                      THEN buildChildren(call, childLinks, currentDepth, path, nodeCount + 1)
                      ELSE [ok |-> TRUE, nodeCount |-> nodeCount + 1, children |-> <<>>]
         IN  IF ~built.ok THEN Thrown(built.nodeCount)
             ELSE [ok |-> TRUE, nodeCount |-> built.nodeCount,
                   node |-> [part |-> toPartSummary(part),
                             hasChildren |-> childLinks # <<>>,
                             children |-> built.children,
                             quantityFromParent |-> quantityFromParent]]

\* Mutant of buildChildren: a child on the path is built like any other
buildChildrenNoSkip(call, childLinks, currentDepth, path, nodeCount) ==
    IF childLinks = <<>>
    THEN [ok |-> TRUE, nodeCount |-> nodeCount, children |-> <<>>]
    ELSE LET link == Head(childLinks)
             child == buildNode(call, link.childId, currentDepth + 1,
                                <<link.quantity>>, path \cup {link.childId}, nodeCount)
             rest == buildChildren(call, Tail(childLinks), currentDepth, path,
                                   child.nodeCount)
         IN  IF ~child.ok THEN Thrown(child.nodeCount)
             ELSE IF ~rest.ok THEN Thrown(rest.nodeCount)
             ELSE [ok |-> TRUE, nodeCount |-> rest.nodeCount,
                   children |-> <<child.node>> \o rest.children]

buildChildren(call, childLinks, currentDepth, path, nodeCount) ==
    IF childLinks = <<>>
    THEN [ok |-> TRUE, nodeCount |-> nodeCount, children |-> <<>>]
    ELSE LET link == Head(childLinks)
         IN  IF link.childId \in path
             THEN buildChildren(call, Tail(childLinks), currentDepth, path, nodeCount)
             ELSE LET child == buildNode(call, link.childId, currentDepth + 1,
                                         <<link.quantity>>, path \cup {link.childId},
                                         nodeCount)
                      rest == buildChildren(call, Tail(childLinks), currentDepth, path,
                                            child.nodeCount)
                  IN  IF ~child.ok THEN Thrown(child.nodeCount)
                      ELSE IF ~rest.ok THEN Thrown(rest.nodeCount)
                      ELSE [ok |-> TRUE, nodeCount |-> rest.nodeCount,
                            children |-> <<child.node>> \o rest.children]

getBomTree(st, rootPartId, depthGiven, nodeLimitGiven) ==
    LET depth == IF depthGiven = <<>> THEN <<1>> ELSE depthGiven
        nodeLimit == IF nodeLimitGiven = <<>> THEN <<maxExpandNodeLimit>> ELSE nodeLimitGiven
    IN  IF ~requirePart(st, rootPartId) THEN Outcome(st, "PartNotFound", <<>>)
        ELSE IF ~IsInteger(depth) \/ depth[1] < 0 THEN Outcome(st, "InvalidDepth", <<>>)
        ELSE IF depth[1] > maxExpandDepth THEN Outcome(st, "DepthTooLarge", <<>>)
        ELSE IF ~IsInteger(nodeLimit) \/ nodeLimit[1] <= 0
        THEN Outcome(st, "InvalidNodeLimit", <<>>)
        ELSE IF nodeLimit[1] > maxExpandNodeLimit
        THEN Outcome(st, "NodeLimitTooLarge", <<>>)
        ELSE LET call == [st |-> st, depth |-> depth[1], nodeLimit |-> nodeLimit[1]]
                 built == buildNode(call, rootPartId, 0, <<>>, {rootPartId}, 0)
             IN  IF ~built.ok THEN Outcome(st, "NodeLimitExceeded", <<>>)
                 ELSE Outcome(st, "ok",
                              <<[rootPartId |-> rootPartId,
                                 requestedDepth |-> depth[1],
                                 nodeLimit |-> nodeLimit[1],
                                 nodeCount |-> built.nodeCount,
                                 tree |-> built.node]>>)

---------------------------------------------------------------------------
(* BomService: the queries of GET /bom/:rootPartId are strings *)

RECURSIVE LeadingDigits(_)
LeadingDigits(s) ==
    IF s # <<>> /\ Head(s) \in 48..57 THEN <<Head(s)>> \o LeadingDigits(Tail(s)) ELSE <<>>

\* Number.parseInt(s, 10): <<>> is NaN
NumberParseInt(s) ==
    LET t == TrimStart(s)
        signed == t # <<>> /\ Head(t) \in {43, 45}
        digits == LeadingDigits(IF signed THEN Tail(t) ELSE t)
    IN  IF digits = <<>> THEN <<>>
        ELSE IF signed /\ Head(t) = 45 THEN <<0 - ParseInt(digits)>>
        ELSE <<ParseInt(digits)>>

AllLiteral == <<97, 108, 108>>

\* Mutant of parseDepth: "all" is parsed as a number
parseDepthNoAll(depthQuery) ==
    IF depthQuery = <<>> \/ depthQuery[1] = <<>> THEN <<1>>
    ELSE NumberParseInt(depthQuery[1])

\* <<>> when the query is not a number
parseDepth(depthQuery) ==
    IF depthQuery = <<>> \/ depthQuery[1] = <<>> THEN <<1>>
    ELSE IF ToLowerCase(depthQuery[1]) = AllLiteral THEN <<maxExpandDepth>>
    ELSE NumberParseInt(depthQuery[1])

parseNodeLimit(nodeLimitQuery) ==
    IF nodeLimitQuery = <<>> \/ nodeLimitQuery[1] = <<>> THEN <<maxExpandNodeLimit>>
    ELSE NumberParseInt(nodeLimitQuery[1])

bomGetBomTree(st, rootPartId, depthQuery, nodeLimitQuery) ==
    LET depth == parseDepth(depthQuery)
        nodeLimit == parseNodeLimit(nodeLimitQuery)
    IN  IF depth = <<>> THEN Outcome(st, "DepthNotANumber", <<>>)
        ELSE IF nodeLimit = <<>> THEN Outcome(st, "NodeLimitNotANumber", <<>>)
        ELSE getBomTree(st, rootPartId, depth, nodeLimit)

---------------------------------------------------------------------------
(* Inputs of the calls *)

IdInputs == {PartIdOf(n) : n \in 1..MaxParts}
NameInputs == {<<32>>, <<110>>}                                           \* " ", "n"
PartNumberInputs ==
    {<<>>, << <<32, 112, 114, 116, 45, 48, 48, 48, 48, 48, 50>> >>}       \* none, " prt-000002"
\* <<name, partNumber>> of an update: a blank number, a blank name, a new number
UpdateInputs ==
    {<< <<>>, << <<32>> >> >>,
     << << <<32>> >>, <<>> >>,
     << <<>>, << <<32, 112, 114, 116, 45, 48, 48, 48, 48, 48, 50>> >> >>}
QuantityInputs == {<<>>, <<0>>, <<2>>, <<1, 5>>}
FaultInputs == {0, 1, 2, 3}

RootInputs == {PartIdOf(n) : n \in 1..(MaxParts + 1)}
DepthInputs == {<<>>, <<1, 5>>, <<-1>>, <<0>>, <<1>>, <<2>>, <<3>>, <<5>>, <<6>>}
NodeLimitInputs ==
    {<<>>, <<2, 5>>, <<0>>, <<1>>, <<2>>, <<3>>, <<4>>, <<5>>, <<80>>, <<81>>}

\* none, "", "all", "All", "x", "6", "-1", "1.5", "2", "0"
DepthQueries ==
    {<<>>, << <<>> >>, <<AllLiteral>>, << <<65, 108, 108>> >>, << <<120>> >>,
     << <<54>> >>, << <<45, 49>> >>, << <<49, 46, 53>> >>, << <<50>> >>, << <<48>> >>}
\* none, "0", "81", "x", "2", "80"
NodeLimitQueries ==
    {<<>>, << <<48>> >>, << <<56, 49>> >>, << <<120>> >>, << <<50>> >>, << <<56, 48>> >>}

LinkInput(parentId, childId, quantity) ==
    [parentId |-> parentId, childId |-> childId, quantity |-> quantity]

---------------------------------------------------------------------------
(* Calls that run one at a time: each action is one whole call, from the  *)
(* request to its answer.                                                 *)

NoResp == [op |-> "none", args |-> <<>>, fault |-> 0, result |-> "none", value |-> <<>>]
NoCalls == <<>>

Init ==
    /\ parts = EmptyState.parts
    /\ links = EmptyState.links
    /\ audit = EmptyState.audit
    /\ partIdSequence = EmptyState.partIdSequence
    /\ auditLogSequence = EmptyState.auditLogSequence
    /\ partNumberSequence = EmptyState.partNumberSequence
    /\ resp = NoResp
    /\ calls = NoCalls
    /\ issued = {}

\* The bounds: a call that writes needs room for its rows
Room(o) ==
    /\ o.st.partIdSequence <= MaxParts + 1
    /\ o.st.auditLogSequence <= MaxAudit + 1
    /\ o.st.partNumberSequence <= MaxParts + 2

Answer(op, args, fault, o) ==
    /\ resp.op = "none"
    /\ Room(o)
    /\ parts' = o.st.parts
    /\ links' = o.st.links
    /\ audit' = o.st.audit
    /\ partIdSequence' = o.st.partIdSequence
    /\ auditLogSequence' = o.st.auditLogSequence
    /\ partNumberSequence' = o.st.partNumberSequence
    /\ resp' = [op |-> op, args |-> args, fault |-> fault,
                result |-> o.result, value |-> o.value]
    /\ UNCHANGED <<calls, issued>>

CreatePart(name, partNumber, fault) ==
    LET input == [name |-> name, partNumber |-> partNumber]
    IN  Answer("createPart", input, fault, createPart(State, input, fault))

UpdatePart(partId, name, partNumber, fault) ==
    LET input == [name |-> name, partNumber |-> partNumber]
    IN  Answer("updatePart", [partId |-> partId, name |-> name, partNumber |-> partNumber],
               fault, updatePart(State, partId, input, fault))

CreateBomLink(parentId, childId, quantity, fault) ==
    LET input == LinkInput(parentId, childId, quantity)
    IN  Answer("createBomLink", input, fault, createBomLink(State, input, fault))

UpdateBomLink(parentId, childId, quantity, fault) ==
    LET input == LinkInput(parentId, childId, quantity)
    IN  Answer("updateBomLink", input, fault, updateBomLink(State, input, fault))

RemoveBomLink(parentId, childId, fault) ==
    LET input == LinkInput(parentId, childId, <<>>)
    IN  Answer("removeBomLink", input, fault, removeBomLink(State, input, fault))

\* The caller has its answer; the next call may start
Return ==
    /\ resp.op # "none"
    /\ resp' = NoResp
    /\ UNCHANGED <<parts, links, audit, partIdSequence, auditLogSequence,
                   partNumberSequence, calls, issued>>

Next ==
    \/ \E name \in NameInputs, partNumber \in PartNumberInputs :
           CreatePart(name, partNumber, 0)
    \/ \E partId \in IdInputs, in \in UpdateInputs :
           UpdatePart(partId, in[1], in[2], 0)
    \/ \E parentId \in IdInputs, childId \in IdInputs, quantity \in QuantityInputs :
           CreateBomLink(parentId, childId, quantity, 0)
    \/ \E parentId \in IdInputs, childId \in IdInputs, quantity \in QuantityInputs :
           UpdateBomLink(parentId, childId, quantity, 0)
    \/ \E parentId \in IdInputs, childId \in IdInputs :
           RemoveBomLink(parentId, childId, 0)
    \/ Return

Spec == Init /\ [][Next]_vars

---------------------------------------------------------------------------
(* The same calls, one at a time, over a store whose writes may fail *)

\* A write can fail only in a call that gets as far as its transaction
FaultsOf(o) == IF o.result = "ok" THEN FaultInputs ELSE {0}

\* A call starts while fewer than MaxFaultAudit audit ids have been allocated
FaultRoom == resp.op = "none" /\ auditLogSequence <= MaxFaultAudit

NextFault ==
    \/ /\ FaultRoom
       /\ \E name \in NameInputs, partNumber \in PartNumberInputs :
            \E fault \in FaultsOf(createPart(State, [name |-> name, partNumber |-> partNumber], 0)) :
              CreatePart(name, partNumber, fault)
    \/ /\ FaultRoom
       /\ \E partId \in IdInputs, in \in UpdateInputs :
            \E fault \in FaultsOf(updatePart(State, partId, [name |-> in[1], partNumber |-> in[2]], 0)) :
              UpdatePart(partId, in[1], in[2], fault)
    \/ /\ FaultRoom
       /\ \E parentId \in IdInputs, childId \in IdInputs, quantity \in QuantityInputs :
            \E fault \in FaultsOf(createBomLink(State, LinkInput(parentId, childId, quantity), 0)) :
              CreateBomLink(parentId, childId, quantity, fault)
    \/ /\ FaultRoom
       /\ \E parentId \in IdInputs, childId \in IdInputs, quantity \in QuantityInputs :
            \E fault \in FaultsOf(updateBomLink(State, LinkInput(parentId, childId, quantity), 0)) :
              UpdateBomLink(parentId, childId, quantity, fault)
    \/ /\ FaultRoom
       /\ \E parentId \in IdInputs, childId \in IdInputs :
            \E fault \in FaultsOf(removeBomLink(State, LinkInput(parentId, childId, <<>>), 0)) :
              RemoveBomLink(parentId, childId, fault)
    \/ Return

SpecFault == Init /\ [][NextFault]_vars

---------------------------------------------------------------------------
(* Tree expansion over a stored graph.  The store holds MaxParts parts     *)
(* whose part numbers are not in the order of their ids, and up to         *)
(* MaxTreeLinks edges written by createBomLink's transaction.  Every set   *)
(* of edges between distinct parts is drawn, cyclic ones included: the     *)
(* cycle check runs before the transaction, so calls that have all passed  *)
(* it can each write their edge.                                           *)

RECURSIVE StoreWithParts(_)
StoreWithParts(n) ==
    IF n = 0 THEN EmptyState
    ELSE createPart(StoreWithParts(n - 1),
                    [name |-> <<110>>, partNumber |-> << <<97 + (n % MaxParts)>> >>], 0).st

RECURSIVE StoreWithLinks(_, _)
StoreWithLinks(st, rows) ==
    IF rows = {} THEN st
    ELSE LET row == CHOOSE r \in rows : TRUE
         IN  StoreWithLinks(
                 createBomLinkTx(st, row.parentId, row.childId, row.quantity, 0).st,
                 rows \ {row})

TreeLinkRows ==
    {[parentId |-> PartIdOf(p), childId |-> PartIdOf(c), quantity |-> p * MaxParts + c] :
        p \in 1..MaxParts, c \in 1..MaxParts} \ 
    {[parentId |-> PartIdOf(p), childId |-> PartIdOf(p), quantity |-> p * MaxParts + p] :
        p \in 1..MaxParts}

InitTree ==
    \E rows \in {S \in SUBSET TreeLinkRows : Cardinality(S) <= MaxTreeLinks} :
        LET st == StoreWithLinks(StoreWithParts(MaxParts), rows)
        IN  /\ parts = st.parts
            /\ links = st.links
            /\ audit = st.audit
            /\ partIdSequence = st.partIdSequence
            /\ auditLogSequence = st.auditLogSequence
            /\ partNumberSequence = st.partNumberSequence
            /\ resp = NoResp
            /\ calls = NoCalls
            /\ issued = {}

\* A whole getBomTree call; it only reads
GetBomTree(rootPartId, depth, nodeLimit) ==
    LET o == getBomTree(State, rootPartId, depth, nodeLimit)
    IN  /\ resp.op = "none"
        /\ resp' = [op |-> "getBomTree",
                    args |-> [rootPartId |-> rootPartId, depth |-> depth,
                              nodeLimit |-> nodeLimit],
                    fault |-> 0, result |-> o.result, value |-> o.value]
        /\ UNCHANGED <<parts, links, audit, partIdSequence, auditLogSequence,
                       partNumberSequence, calls, issued>>

NextTree ==
    \/ \E rootPartId \in RootInputs, depth \in DepthInputs, nodeLimit \in NodeLimitInputs :
           GetBomTree(rootPartId, depth, nodeLimit)
    \/ Return

SpecTree == InitTree /\ [][NextTree]_vars

---------------------------------------------------------------------------
(* Overlapping link calls.  A call runs from one await to the next in one   *)
(* step: the two requirePart reads and the checks on the input (the parts   *)
(* table is not written by any of these calls), the findUnique on the       *)
(* pair, every turn of isReachable's loop with its findMany, and the        *)
(* transaction, which the store runs as one unit.  Up to MaxCalls calls     *)
(* are made, each on two distinct parts of the store; calls that stand at   *)
(* the same place with the same input are not told apart.                   *)

\* A call that has answered: what remains of it is its answer
Finished(call, result) ==
    [call EXCEPT !.pc = "done", !.input = <<>>, !.search = <<>>, !.result = result]

\* The calls, with one of them moved on
Moved(call, next) == (calls (-) SetToBag({call})) (+) SetToBag({next})

InFlight(pc) == {call \in BagToSet(calls) : call.pc = pc}

ConcPairs == {pair \in IdInputs \X IdInputs : pair[1] # pair[2]}

ConcCallInputs ==
    {<<"createBomLink", LinkInput(pair[1], pair[2], <<2>>)>> : pair \in ConcPairs}
    \cup {<<"updateBomLink", LinkInput(pair[1], pair[2], <<3>>)>> : pair \in ConcPairs}
    \cup {<<"removeBomLink", LinkInput(pair[1], pair[2], <<>>)>> : pair \in ConcPairs}

\* The edges the store may hold when the calls start: none, or one
ConcInitialRows ==
    {{}, {[parentId |-> PartIdOf(1), childId |-> PartIdOf(2), quantity |-> 1]}}

InitConc ==
    \E rows \in ConcInitialRows :
        LET st == StoreWithLinks(StoreWithParts(MaxParts), rows)
        IN  /\ parts = st.parts
            /\ links = st.links
            /\ audit = st.audit
            /\ partIdSequence = st.partIdSequence
            /\ auditLogSequence = st.auditLogSequence
            /\ partNumberSequence = st.partNumberSequence
            /\ resp = NoResp
            /\ calls = NoCalls
            /\ issued = {}

\* What a call answers before its first read of bom_links, "ok" if nothing
BeginChecks(st, op, input) ==
    IF ~(requirePart(st, input.parentId) /\ requirePart(st, input.childId))
    THEN "PartNotFound"
    ELSE IF op = "createBomLink" /\ input.parentId = input.childId THEN "SelfLink"
    ELSE IF op = "createBomLink" /\ ~IsPositiveInteger(GivenQuantity(input))
    THEN "InvalidQuantity"
    ELSE IF op = "updateBomLink" /\ ~IsPositiveInteger(input.quantity)
    THEN "InvalidQuantity"
    ELSE "ok"

Begin(op, input) ==
    /\ BagCardinality(calls) < MaxCalls
    /\ LET call == [pc |-> "findUnique", op |-> op, input |-> input,
                    search |-> <<>>, result |-> "none"]
           checked == BeginChecks(State, op, input)
       IN  calls' = calls (+) SetToBag({IF checked = "ok" THEN call
                                        ELSE Finished(call, checked)})
    /\ UNCHANGED <<parts, links, audit, partIdSequence, auditLogSequence,
                   partNumberSequence, resp, issued>>

FindUnique(call) ==
    /\ call.pc = "findUnique"
    /\ LET existing == FindLink(State, call.input.parentId, call.input.childId) # {}
       IN  calls' = Moved(call,
                        IF call.op = "createBomLink"
                        THEN IF existing THEN Finished(call, "LinkExists")
                             ELSE [call EXCEPT !.pc = "isReachable",
                                               !.search = SearchFrom(call.input.childId)]
                        ELSE IF existing THEN [call EXCEPT !.pc = "transaction"]
                             ELSE Finished(call, "LinkNotFound"))
    /\ UNCHANGED <<parts, links, audit, partIdSequence, auditLogSequence,
                   partNumberSequence, resp, issued>>

\* One turn of the loop of isReachable(childId, parentId), and what
\* createBomLink does with the result when the loop ends
IsReachableTurn(call) ==
    /\ call.pc = "isReachable"
    /\ LET partId == call.search.stack[Len(call.search.stack)]
       IN  \E childIds \in Orders(ChildIdSet(State, partId)) :
               LET search == isReachableStep(call.search, call.input.parentId, childIds)
               IN  calls' = Moved(call,
                                IF search.found THEN Finished(call, "Cycle")
                                ELSE IF search.stack = <<>>
                                THEN [call EXCEPT !.pc = "transaction", !.search = <<>>]
                                ELSE [call EXCEPT !.search = search])
    /\ UNCHANGED <<parts, links, audit, partIdSequence, auditLogSequence,
                   partNumberSequence, resp, issued>>

Transaction(call) ==
    /\ call.pc = "transaction"
    /\ LET in == call.input
           o == IF call.op = "createBomLink"
                THEN createBomLinkTx(State, in.parentId, in.childId, GivenQuantity(in)[1], 0)
                ELSE IF call.op = "updateBomLink"
                THEN updateBomLinkTx(State, in.parentId, in.childId, in.quantity[1], 0)
                ELSE removeBomLinkTx(State, in.parentId, in.childId, 0)
       IN  /\ parts' = o.st.parts
           /\ links' = o.st.links
           /\ audit' = o.st.audit
           /\ partIdSequence' = o.st.partIdSequence
           /\ auditLogSequence' = o.st.auditLogSequence
           /\ partNumberSequence' = o.st.partNumberSequence
           /\ calls' = Moved(call, Finished(call, o.result))
    /\ UNCHANGED <<resp, issued>>

NextConc ==
    \/ \E in \in ConcCallInputs : Begin(in[1], in[2])
    \/ \E call \in InFlight("findUnique") : FindUnique(call)
    \/ \E call \in InFlight("isReachable") : IsReachableTurn(call)
    \/ \E call \in InFlight("transaction") : Transaction(call)

SpecConc == InitConc /\ [][NextConc]_vars

---------------------------------------------------------------------------
(* Overlapping part calls.  createPart and updatePart run from one await   *)
(* to the next in one step: the findUnique of allocatePartNumber, the      *)
(* findUnique of assertPartNumberIsAvailable, the findUnique of            *)
(* requirePart, and the transaction, which the store runs as one unit.     *)
(* local holds the call's variables (partNumber, name) across its awaits.  *)
(* The store holds up to two parts when the calls start.                   *)

\* none, "b" (the number of the first part), " prt-000001" (no part has it)
RaceNumberInputs ==
    {<<>>, << <<98>> >>, << <<32, 112, 114, 116, 45, 48, 48, 48, 48, 48, 49>> >>}
RaceIdInputs == {PartIdOf(1), PartIdOf(2)}

PartCallInputs ==
    {<<"createPart", [partId |-> <<>>, name |-> <<110>>, partNumber |-> n]>> :
        n \in RaceNumberInputs}
    \cup {<<"updatePart", [partId |-> id, name |-> <<>>, partNumber |-> n]>> :
              id \in RaceIdInputs, n \in RaceNumberInputs \ {<<>>}}
    \cup {<<"updatePart", [partId |-> id, name |-> << <<109>> >>, partNumber |-> <<>>]>> :
              id \in RaceIdInputs}

InitParts ==
    \E n \in 0..2 :
        LET st == StoreWithParts(n)
        IN  /\ parts = st.parts
            /\ links = st.links
            /\ audit = st.audit
            /\ partIdSequence = st.partIdSequence
            /\ auditLogSequence = st.auditLogSequence
            /\ partNumberSequence = st.partNumberSequence
            /\ resp = NoResp
            /\ calls = NoCalls
            /\ issued = {}

PartFinished(call, result) ==
    [call EXCEPT !.pc = "done", !.input = <<>>, !.local = <<>>, !.result = result]

\* createPart up to its first await, updatePart up to its requirePart
BeginPartCall(op, input) ==
    LET call == [pc |-> "requirePart", op |-> op, input |-> input,
                 local |-> <<>>, result |-> "none"]
        normalizedName == Trim(input.name)
        requestedPartNumber ==
            IF input.partNumber = <<>> THEN <<>>
            ELSE ToUpperCase(Trim(input.partNumber[1]))
    IN  /\ BagCardinality(calls) < MaxCalls
        /\ IF op = "updatePart"
           THEN /\ calls' = calls (+) SetToBag({call})
                /\ UNCHANGED partNumberSequence
           ELSE IF normalizedName = <<>>
           THEN /\ calls' = calls (+) SetToBag({PartFinished(call, "PartNameRequired")})
                /\ UNCHANGED partNumberSequence
           ELSE IF requestedPartNumber # <<>>
           THEN /\ calls' = calls (+) SetToBag(
                                {[call EXCEPT !.pc = "assert",
                                              !.local = [partNumber |-> requestedPartNumber,
                                                         name |-> normalizedName]]})
                /\ UNCHANGED partNumberSequence
           ELSE /\ calls' = calls (+) SetToBag(
                                {[call EXCEPT !.pc = "allocate",
                                              !.local = [partNumber |-> PartNumberOf(partNumberSequence),
                                                         name |-> normalizedName]]})
                /\ partNumberSequence' = partNumberSequence + 1
        /\ UNCHANGED <<parts, links, audit, partIdSequence, auditLogSequence,
                       resp, issued>>

\* allocatePartNumber resumes after the findUnique of its candidate
AllocateTurn(call) ==
    /\ call.pc = "allocate"
    /\ IF PartsByNumber(State, call.local.partNumber) = {}
       THEN /\ calls' = Moved(call, [call EXCEPT !.pc = "assert"])
            /\ UNCHANGED partNumberSequence
       ELSE /\ calls' = Moved(call, [call EXCEPT !.local.partNumber =
                                                     PartNumberOf(partNumberSequence)])
            /\ partNumberSequence' = partNumberSequence + 1
    /\ UNCHANGED <<parts, links, audit, partIdSequence, auditLogSequence,
                   resp, issued>>

\* updatePart resumes after requirePart, with the row as it was read
RequirePartRow(call) ==
    /\ call.pc = "requirePart"
    /\ IF ~requirePart(State, call.input.partId)
       THEN calls' = Moved(call, PartFinished(call, "PartNotFound"))
       ELSE LET part == PartOf(State, call.input.partId)
                nextName == IF call.input.name # <<>>
                            THEN Trim(call.input.name[1]) ELSE part.name
                normalizedPartNumber ==
                    IF call.input.partNumber = <<>> THEN part.partNumber
                    ELSE ToUpperCase(Trim(call.input.partNumber[1]))
                local == [partNumber |-> normalizedPartNumber, name |-> nextName]
            IN  calls' = Moved(call,
                    IF nextName = <<>> THEN PartFinished(call, "PartNameEmpty")
                    ELSE IF normalizedPartNumber = <<>>
                    THEN PartFinished(call, "PartNumberEmpty")
                    ELSE IF normalizedPartNumber # part.partNumber
                    THEN [call EXCEPT !.pc = "assert", !.local = local]
                    ELSE [call EXCEPT !.pc = "transaction", !.local = local])
    /\ UNCHANGED <<parts, links, audit, partIdSequence, auditLogSequence,
                   partNumberSequence, resp, issued>>

\* The call resumes after the findUnique of assertPartNumberIsAvailable
AssertAvailable(call) ==
    /\ call.pc = "assert"
    /\ LET excludedPartId == IF call.op = "updatePart" THEN <<call.input.partId>> ELSE <<>>
       IN  IF ~assertPartNumberIsAvailable(State, call.local.partNumber, excludedPartId)
           THEN /\ calls' = Moved(call, PartFinished(call, "PartNumberExists"))
                /\ UNCHANGED partNumberSequence
           ELSE /\ calls' = Moved(call, [call EXCEPT !.pc = "transaction"])
                /\ partNumberSequence' =
                       IF call.op = "updatePart"
                       THEN updatePartNumberSequence(State, call.local.partNumber).partNumberSequence
                       ELSE partNumberSequence
    /\ UNCHANGED <<parts, links, audit, partIdSequence, auditLogSequence,
                   resp, issued>>

PartTransaction(call) ==
    /\ call.pc = "transaction"
    /\ LET o == IF call.op = "createPart"
                THEN createPartTx(State, call.local.partNumber, call.local.name, 0)
                ELSE updatePartTx(State, call.input.partId, call.local.partNumber,
                                  call.local.name, 0)
       IN  /\ parts' = o.st.parts
           /\ links' = o.st.links
           /\ audit' = o.st.audit
           /\ partIdSequence' = o.st.partIdSequence
           /\ auditLogSequence' = o.st.auditLogSequence
           /\ partNumberSequence' = o.st.partNumberSequence
           /\ calls' = Moved(call, PartFinished(call, o.result))
    /\ UNCHANGED <<resp, issued>>

NextParts ==
    \/ \E in \in PartCallInputs : BeginPartCall(in[1], in[2])
    \/ \E call \in InFlight("allocate") : AllocateTurn(call)
    \/ \E call \in InFlight("requirePart") : RequirePartRow(call)
    \/ \E call \in InFlight("assert") : AssertAvailable(call)
    \/ \E call \in InFlight("transaction") : PartTransaction(call)

SpecParts == InitParts /\ [][NextParts]_vars

---------------------------------------------------------------------------
(* BomService in front of the store.  removeBomLink calls the store's      *)
(* removeBomLink and answers at once, without awaiting the promise: the    *)
(* store's call goes on in the background, from one await to the next,     *)
(* and nobody receives its result.  updateBomLink, getPartDetails and      *)
(* getBomTree answer with the store's result.  The store holds MaxParts    *)
(* parts and some of the edges that leave the first part; up to MaxCalls   *)
(* calls that write are made.                                               *)

ServiceLinkRows ==
    {[parentId |-> PartIdOf(1), childId |-> PartIdOf(c), quantity |-> MaxParts + c] :
        c \in 2..MaxParts}

\* The pairs of the requests: the first part above each other part, and one
\* pair that never has an edge
ServicePairs ==
    {<<PartIdOf(1), PartIdOf(c)>> : c \in 2..MaxParts} \cup {<<PartIdOf(2), PartIdOf(1)>>}

ServiceQuantityInputs == {<<0>>, <<2>>}

InitService ==
    \E rows \in SUBSET ServiceLinkRows :
        LET st == StoreWithLinks(StoreWithParts(MaxParts), rows)
        IN  /\ parts = st.parts
            /\ links = st.links
            /\ audit = st.audit
            /\ partIdSequence = st.partIdSequence
            /\ auditLogSequence = st.auditLogSequence
            /\ partNumberSequence = st.partNumberSequence
            /\ resp = NoResp
            /\ calls = NoCalls
            /\ issued = {}

\* BomService.removeBomLink: the store's call is started and left to
\* itself, the success message is the answer
ServiceRemoveBomLink(parentId, childId) ==
    LET input == LinkInput(parentId, childId, <<>>)
        call == [pc |-> "requirePart", op |-> "removeBomLink", input |-> input,
                 search |-> <<>>, result |-> "none"]
    IN  /\ resp.op = "none"
        /\ BagCardinality(calls) < MaxCalls
        /\ calls' = calls (+) SetToBag({call})
        /\ resp' = [op |-> "removeBomLink", args |-> input, fault |-> 0,
                    result |-> "ok",
                    value |-> <<[message |-> "BOM link removed successfully.",
                                 parentId |-> parentId, childId |-> childId]>>]
        /\ UNCHANGED <<parts, links, audit, partIdSequence, auditLogSequence,
                       partNumberSequence, issued>>

\* The store's removeBomLink resumes after its two requirePart lookups
RequireParts(call) ==
    /\ call.pc = "requirePart"
    /\ calls' = Moved(call,
                     IF requirePart(State, call.input.parentId)
                        /\ requirePart(State, call.input.childId)
                     THEN [call EXCEPT !.pc = "findUnique"]
                     ELSE Finished(call, "PartNotFound"))
    /\ UNCHANGED <<parts, links, audit, partIdSequence, auditLogSequence,
                   partNumberSequence, resp, issued>>

\* BomService.updateBomLink: the store's call, awaited
ServiceUpdateBomLink(parentId, childId, quantity) ==
    LET input == LinkInput(parentId, childId, quantity)
        o == updateBomLink(State, input, 0)
        call == [pc |-> "done", op |-> "updateBomLink", input |-> input,
                 search |-> <<>>, result |-> o.result]
    IN  /\ resp.op = "none"
        /\ BagCardinality(calls) < MaxCalls
        /\ parts' = o.st.parts
        /\ links' = o.st.links
        /\ audit' = o.st.audit
        /\ partIdSequence' = o.st.partIdSequence
        /\ auditLogSequence' = o.st.auditLogSequence
        /\ partNumberSequence' = o.st.partNumberSequence
        /\ calls' = calls (+) SetToBag({Finished(call, o.result)})
        /\ resp' = [op |-> "updateBomLink", args |-> input, fault |-> 0,
                    result |-> o.result, value |-> o.value]
        /\ UNCHANGED issued

\* A whole getPartDetails call; it only reads
GetPartDetails(partId) ==
    LET o == getPartDetails(State, partId)
    IN  /\ resp.op = "none"
        /\ resp' = [op |-> "getPartDetails", args |-> [partId |-> partId],
                    fault |-> 0, result |-> o.result, value |-> o.value]
        /\ UNCHANGED <<parts, links, audit, partIdSequence, auditLogSequence,
                       partNumberSequence, calls, issued>>

NextService ==
    \/ \E pair \in ServicePairs : ServiceRemoveBomLink(pair[1], pair[2])
    \/ \E call \in InFlight("requirePart") : RequireParts(call)
    \/ \E call \in InFlight("findUnique") : FindUnique(call)
    \/ \E call \in InFlight("transaction") : Transaction(call)
    \/ \E pair \in ServicePairs, quantity \in ServiceQuantityInputs :
           ServiceUpdateBomLink(pair[1], pair[2], quantity)
    \/ \E partId \in IdInputs : GetPartDetails(partId)
    \/ \E rootPartId \in IdInputs : GetBomTree(rootPartId, <<>>, <<>>)
    \/ Return

SpecService == InitService /\ [][NextService]_vars

---------------------------------------------------------------------------
(* Reads over a stored graph.  The store holds MaxParts - 1 or MaxParts     *)
(* parts, whose part numbers are not in the order of their ids and whose   *)
(* names differ in case, and up to MaxTreeLinks edges between them; one    *)
(* more part may be created.  searchParts, getPartDetails,                 *)
(* getPartAuditLogs and getBomTree only read.                              *)

\* Parts "B" 'Cx', "C" 'n', "A" 'Cx', ... in the order of their ids
RECURSIVE StoreForReads(_)
StoreForReads(n) ==
    IF n = 0 THEN EmptyState
    ELSE createPart(StoreForReads(n - 1),
                    [name |-> IF n % 2 = 1 THEN <<67, 120>> ELSE <<110>>,
                     partNumber |-> << <<97 + (n % MaxParts)>> >>], 0).st

\* partNumber: none, "b"; name: none, "X", "  "; q: none, " c ", "b"
FilterInputs ==
    [partNumber : {<<>>, << <<98>> >>},
     name : {<<>>, << <<88>> >>, << <<32, 32>> >>},
     q : {<<>>, << <<32, 99, 32>> >>, << <<98>> >>}]

InitReads ==
    \E n \in {MaxParts - 1, MaxParts} :
        \E rows \in {S \in SUBSET TreeLinkRows : Cardinality(S) <= MaxTreeLinks - 1} :
            LET st == StoreWithLinks(StoreForReads(n), rows)
            IN  /\ parts = st.parts
                /\ links = st.links
                /\ audit = st.audit
                /\ partIdSequence = st.partIdSequence
                /\ auditLogSequence = st.auditLogSequence
                /\ partNumberSequence = st.partNumberSequence
                /\ resp = NoResp
                /\ calls = NoCalls
                /\ issued = {}

\* A whole createPart call, while the store has room for the part
ReadsCreatePart(name, partNumber) ==
    LET input == [name |-> name, partNumber |-> partNumber]
        o == createPart(State, input, 0)
    IN  /\ resp.op = "none"
        /\ o.st.partIdSequence <= MaxParts + 1
        /\ parts' = o.st.parts
        /\ links' = o.st.links
        /\ audit' = o.st.audit
        /\ partIdSequence' = o.st.partIdSequence
        /\ auditLogSequence' = o.st.auditLogSequence
        /\ partNumberSequence' = o.st.partNumberSequence
        /\ resp' = [op |-> "createPart", args |-> input, fault |-> 0,
                    result |-> o.result, value |-> o.value]
        /\ UNCHANGED <<calls, issued>>

\* A whole searchParts call; it only reads
SearchParts(filters) ==
    LET o == searchParts(State, filters)
    IN  /\ resp.op = "none"
        /\ resp' = [op |-> "searchParts", args |-> filters,
                    fault |-> 0, result |-> o.result, value |-> o.value]
        /\ UNCHANGED <<parts, links, audit, partIdSequence, auditLogSequence,
                       partNumberSequence, calls, issued>>

\* A whole getPartAuditLogs call; it only reads
GetPartAuditLogs(partId) ==
    LET o == getPartAuditLogs(State, partId)
    IN  /\ resp.op = "none"
        /\ resp' = [op |-> "getPartAuditLogs", args |-> [partId |-> partId],
                    fault |-> 0, result |-> o.result, value |-> o.value]
        /\ UNCHANGED <<parts, links, audit, partIdSequence, auditLogSequence,
                       partNumberSequence, calls, issued>>

NextReads ==
    \/ \E name \in NameInputs, partNumber \in PartNumberInputs :
           ReadsCreatePart(name, partNumber)
    \/ \E filters \in FilterInputs : SearchParts(filters)
    \/ \E partId \in RootInputs : GetPartDetails(partId)
    \/ \E partId \in RootInputs : GetPartAuditLogs(partId)
    \/ \E rootPartId \in RootInputs, depth \in {<<>>, <<2>>} :
           GetBomTree(rootPartId, depth, <<>>)
    \/ Return

SpecReads == InitReads /\ [][NextReads]_vars

---------------------------------------------------------------------------
(* Requests for a tree: the queries of GET /bom/:rootPartId, and calls of  *)
(* the store with a depth or a nodeLimit that is no integer.              *)

InitQuery ==
    \E rows \in {S \in SUBSET TreeLinkRows : Cardinality(S) <= MaxTreeLinks - 2} :
        LET st == StoreWithLinks(StoreWithParts(MaxParts), rows)
        IN  /\ parts = st.parts
            /\ links = st.links
            /\ audit = st.audit
            /\ partIdSequence = st.partIdSequence
            /\ auditLogSequence = st.auditLogSequence
            /\ partNumberSequence = st.partNumberSequence
            /\ resp = NoResp
            /\ calls = NoCalls
            /\ issued = {}

\* A whole GET /bom/:rootPartId request; it only reads
BomGetBomTree(rootPartId, depthQuery, nodeLimitQuery) ==
    LET o == bomGetBomTree(State, rootPartId, depthQuery, nodeLimitQuery)
    IN  /\ resp.op = "none"
        /\ resp' = [op |-> "bomGetBomTree",
                    args |-> [rootPartId |-> rootPartId, depthQuery |-> depthQuery,
                              nodeLimitQuery |-> nodeLimitQuery],
                    fault |-> 0, result |-> o.result, value |-> o.value]
        /\ UNCHANGED <<parts, links, audit, partIdSequence, auditLogSequence,
                       partNumberSequence, calls, issued>>

NextQuery ==
    \/ \E rootPartId \in RootInputs, depth \in {<<>>, <<2>>, <<1, 5>>, <<6>>},
          nodeLimit \in {<<>>, <<2, 5>>, <<1>>} :
           GetBomTree(rootPartId, depth, nodeLimit)
    \/ \E rootPartId \in RootInputs, depthQuery \in DepthQueries,
          nodeLimitQuery \in NodeLimitQueries :
           BomGetBomTree(rootPartId, depthQuery, nodeLimitQuery)
    \/ Return

SpecQuery == InitQuery /\ [][NextQuery]_vars

---------------------------------------------------------------------------
(* Startup: the sequences are read from the store and the sample data  *)
(* is seeded.                                                          *)

SEED_PARTS ==
    <<
    \* Autonomous Cart Assembly
    [key |-> "root", partNumber |-> PartNumberOf(1),
     name |-> <<65, 117, 116, 111, 110, 111, 109, 111, 117, 115, 32, 67, 97, 114, 116, 32, 65, 115, 115, 101, 109, 98, 108, 121>>],
    \* Mechanical Module
    [key |-> "mechanical", partNumber |-> PartNumberOf(2),
     name |-> <<77, 101, 99, 104, 97, 110, 105, 99, 97, 108, 32, 77, 111, 100, 117, 108, 101>>],
    \* Electrical Module
    [key |-> "electrical", partNumber |-> PartNumberOf(3),
     name |-> <<69, 108, 101, 99, 116, 114, 105, 99, 97, 108, 32, 77, 111, 100, 117, 108, 101>>],
    \* Controls Module
    [key |-> "controls", partNumber |-> PartNumberOf(4),
     name |-> <<67, 111, 110, 116, 114, 111, 108, 115, 32, 77, 111, 100, 117, 108, 101>>],
    \* Base Plate
    [key |-> "basePlate", partNumber |-> PartNumberOf(5),
     name |-> <<66, 97, 115, 101, 32, 80, 108, 97, 116, 101>>],
    \* Suspension Kit
    [key |-> "suspension", partNumber |-> PartNumberOf(6),
     name |-> <<83, 117, 115, 112, 101, 110, 115, 105, 111, 110, 32, 75, 105, 116>>],
    \* Wheel Set
    [key |-> "wheelSet", partNumber |-> PartNumberOf(7),
     name |-> <<87, 104, 101, 101, 108, 32, 83, 101, 116>>],
    \* Primary Harness
    [key |-> "harness", partNumber |-> PartNumberOf(8),
     name |-> <<80, 114, 105, 109, 97, 114, 121, 32, 72, 97, 114, 110, 101, 115, 115>>],
    \* Battery Pack
    [key |-> "batteryPack", partNumber |-> PartNumberOf(9),
     name |-> <<66, 97, 116, 116, 101, 114, 121, 32, 80, 97, 99, 107>>],
    \* Safety Relay
    [key |-> "safetyRelay", partNumber |-> PartNumberOf(10),
     name |-> <<83, 97, 102, 101, 116, 121, 32, 82, 101, 108, 97, 121>>],
    \* Controller Board
    [key |-> "controllerBoard", partNumber |-> PartNumberOf(11),
     name |-> <<67, 111, 110, 116, 114, 111, 108, 108, 101, 114, 32, 66, 111, 97, 114, 100>>],
    \* Operator Panel
    [key |-> "operatorPanel", partNumber |-> PartNumberOf(12),
     name |-> <<79, 112, 101, 114, 97, 116, 111, 114, 32, 80, 97, 110, 101, 108>>],
    \* Cooling Module
    [key |-> "coolingModule", partNumber |-> PartNumberOf(13),
     name |-> <<67, 111, 111, 108, 105, 110, 103, 32, 77, 111, 100, 117, 108, 101>>],
    \* Front Left Wheel
    [key |-> "frontLeftWheel", partNumber |-> PartNumberOf(14),
     name |-> <<70, 114, 111, 110, 116, 32, 76, 101, 102, 116, 32, 87, 104, 101, 101, 108>>],
    \* Front Right Wheel
    [key |-> "frontRightWheel", partNumber |-> PartNumberOf(15),
     name |-> <<70, 114, 111, 110, 116, 32, 82, 105, 103, 104, 116, 32, 87, 104, 101, 101, 108>>],
    \* Rear Left Wheel
    [key |-> "rearLeftWheel", partNumber |-> PartNumberOf(16),
     name |-> <<82, 101, 97, 114, 32, 76, 101, 102, 116, 32, 87, 104, 101, 101, 108>>],
    \* Rear Right Wheel
    [key |-> "rearRightWheel", partNumber |-> PartNumberOf(17),
     name |-> <<82, 101, 97, 114, 32, 82, 105, 103, 104, 116, 32, 87, 104, 101, 101, 108>>],
    \* LiDAR Sensor
    [key |-> "lidar", partNumber |-> PartNumberOf(18),
     name |-> <<76, 105, 68, 65, 82, 32, 83, 101, 110, 115, 111, 114>>],
    \* IMU Sensor
    [key |-> "imu", partNumber |-> PartNumberOf(19),
     name |-> <<73, 77, 85, 32, 83, 101, 110, 115, 111, 114>>],
    \* CPU Module
    [key |-> "cpuModule", partNumber |-> PartNumberOf(20),
     name |-> <<67, 80, 85, 32, 77, 111, 100, 117, 108, 101>>],
    \* I/O Module
    [key |-> "ioModule", partNumber |-> PartNumberOf(21),
     name |-> <<73, 47, 79, 32, 77, 111, 100, 117, 108, 101>>]
    >>

SEED_BOM_LINKS ==
    <<
    [parentKey |-> "root", childKey |-> "mechanical", quantity |-> 1],
    [parentKey |-> "root", childKey |-> "electrical", quantity |-> 1],
    [parentKey |-> "root", childKey |-> "controls", quantity |-> 1],
    [parentKey |-> "mechanical", childKey |-> "basePlate", quantity |-> 1],
    [parentKey |-> "mechanical", childKey |-> "suspension", quantity |-> 1],
    [parentKey |-> "mechanical", childKey |-> "wheelSet", quantity |-> 1],
    [parentKey |-> "wheelSet", childKey |-> "frontLeftWheel", quantity |-> 1],
    [parentKey |-> "wheelSet", childKey |-> "frontRightWheel", quantity |-> 1],
    [parentKey |-> "wheelSet", childKey |-> "rearLeftWheel", quantity |-> 1],
    [parentKey |-> "wheelSet", childKey |-> "rearRightWheel", quantity |-> 1],
    [parentKey |-> "electrical", childKey |-> "harness", quantity |-> 1],
    [parentKey |-> "electrical", childKey |-> "batteryPack", quantity |-> 1],
    [parentKey |-> "electrical", childKey |-> "safetyRelay", quantity |-> 1],
    [parentKey |-> "controls", childKey |-> "controllerBoard", quantity |-> 1],
    [parentKey |-> "controls", childKey |-> "operatorPanel", quantity |-> 1],
    [parentKey |-> "controls", childKey |-> "coolingModule", quantity |-> 1],
    [parentKey |-> "controllerBoard", childKey |-> "lidar", quantity |-> 1],
    [parentKey |-> "controllerBoard", childKey |-> "imu", quantity |-> 1],
    [parentKey |-> "controllerBoard", childKey |-> "cpuModule", quantity |-> 1],
    [parentKey |-> "controllerBoard", childKey |-> "ioModule", quantity |-> 1]
    >>

\* The first loop of seedSampleData; partIdsByKey is a function on the keys
\* set so far
RECURSIVE seedParts(_, _, _)
seedParts(st, definitions, partIdsByKey) ==
    IF definitions = <<>> THEN [ok |-> TRUE, st |-> st, partIdsByKey |-> partIdsByKey]
    ELSE LET partDefinition == Head(definitions)
             existingPart == PartsByNumber(st, partDefinition.partNumber)
             Set(id) == [k \in DOMAIN partIdsByKey \cup {partDefinition.key} |->
                            IF k = partDefinition.key THEN id ELSE partIdsByKey[k]]
         IN  IF existingPart # {}
             THEN LET part == CHOOSE p \in existingPart : TRUE
                  IN  seedParts(updatePartNumberSequence(st, part.partNumber),
                                Tail(definitions), Set(part.id))
             ELSE LET o == createPart(st, [name |-> partDefinition.name,
                                           partNumber |-> <<partDefinition.partNumber>>], 0)
                  IN  IF o.result # "ok"
                      THEN [ok |-> FALSE, st |-> o.st, partIdsByKey |-> partIdsByKey]
                      ELSE seedParts(o.st, Tail(definitions), Set(o.value[1].id))

\* The second loop of seedSampleData
RECURSIVE seedLinks(_, _, _)

\* Mutant of seedLinks: the quantity of a link that exists is always written
seedLinksAlwaysUpdate(st, definitions, partIdsByKey) ==
    IF definitions = <<>> THEN [ok |-> TRUE, st |-> st]
    ELSE LET linkDefinition == Head(definitions)
         IN  IF \/ linkDefinition.parentKey \notin DOMAIN partIdsByKey
                \/ linkDefinition.childKey \notin DOMAIN partIdsByKey
             THEN [ok |-> FALSE, st |-> st]
             ELSE LET input == LinkInput(partIdsByKey[linkDefinition.parentKey],
                                         partIdsByKey[linkDefinition.childKey],
                                         <<linkDefinition.quantity>>)
                      existingLink == FindLink(st, input.parentId, input.childId)
                      o == IF existingLink = {} THEN createBomLink(st, input, 0)
                           ELSE updateBomLink(st, input, 0)
                  IN  IF o.result # "ok" THEN [ok |-> FALSE, st |-> o.st]
                      ELSE seedLinks(o.st, Tail(definitions), partIdsByKey)

seedLinks(st, definitions, partIdsByKey) ==
    IF definitions = <<>> THEN [ok |-> TRUE, st |-> st]
    ELSE LET linkDefinition == Head(definitions)
         IN  IF \/ linkDefinition.parentKey \notin DOMAIN partIdsByKey
                \/ linkDefinition.childKey \notin DOMAIN partIdsByKey
             THEN [ok |-> FALSE, st |-> st]
             ELSE LET input == LinkInput(partIdsByKey[linkDefinition.parentKey],
                                         partIdsByKey[linkDefinition.childKey],
                                         <<linkDefinition.quantity>>)
                      existingLink == FindLink(st, input.parentId, input.childId)
                      o == IF existingLink = {} THEN createBomLink(st, input, 0)
                           ELSE IF \E l \in existingLink : l.quantity # linkDefinition.quantity
                           THEN updateBomLink(st, input, 0)
                           ELSE Outcome(st, "ok", <<>>)
                  IN  IF o.result # "ok" THEN [ok |-> FALSE, st |-> o.st]
                      ELSE seedLinks(o.st, Tail(definitions), partIdsByKey)

\* An error of a call ends the seeding; what the calls before it wrote stays
seedSampleData(st) ==
    LET seeded == seedParts(st, SEED_PARTS, <<>>)
    IN  IF ~seeded.ok THEN Outcome(seeded.st, "StartupError", <<>>)
        ELSE LET linked == seedLinks(seeded.st, SEED_BOM_LINKS, seeded.partIdsByKey)
             IN  Outcome(linked.st, IF linked.ok THEN "ok" ELSE "StartupError", <<>>)

\* shouldSeed: SEED_SAMPLE_DATA is not 'false'
onModuleInit(st, shouldSeed) ==
    LET sequenced == initializeSequences(st)
    IN  IF shouldSeed THEN seedSampleData(sequenced) ELSE Outcome(sequenced, "ok", <<>>)

\* The store a service is started on: the tables of an earlier run
RECURSIVE StoreAllocated(_)
StoreAllocated(n) ==
    IF n = 0 THEN EmptyState
    ELSE createPart(StoreAllocated(n - 1), [name |-> <<110>>, partNumber |-> <<>>], 0).st

\* no row; one part B; the parts PRT-000001 and PRT-000002, the second using
\* the first
SeedStartStores ==
    {EmptyState,
     StoreWithParts(1),
     StoreWithLinks(StoreAllocated(2),
                    {[parentId |-> PartIdOf(2), childId |-> PartIdOf(1), quantity |-> 1]})}

\* The service is down: its sequences are those of the constructor
Down == [op |-> "down", args |-> <<>>, fault |-> 0, result |-> "none", value |-> <<>>]

InitSeed ==
    \E st \in SeedStartStores :
        /\ parts = st.parts
        /\ links = st.links
        /\ audit = st.audit
        /\ partIdSequence = 1
        /\ auditLogSequence = 1
        /\ partNumberSequence = 1
        /\ resp = Down
        /\ calls = NoCalls
        /\ issued = {}

\* The changes to links that the log tells of
LinkChanges(st) ==
    {i \in 1..Len(st.audit) :
        st.audit[i].action \in {"BOM_LINK_UPDATED", "BOM_LINK_REMOVED"}}

\* The store has room for what the call writes: the parts named n are those
\* of createPart calls
SeedRoom(o) ==
    /\ Cardinality({p \in o.st.parts : p.name = <<110>>}) <= MaxCalls
    /\ Cardinality(LinkChanges(o.st)) <= 2 * MaxCalls

SeedAnswer(op, args, o, value) ==
    /\ SeedRoom(o)
    /\ parts' = o.st.parts
    /\ links' = o.st.links
    /\ audit' = o.st.audit
    /\ partIdSequence' = o.st.partIdSequence
    /\ auditLogSequence' = o.st.auditLogSequence
    /\ partNumberSequence' = o.st.partNumberSequence
    /\ resp' = [op |-> op, args |-> args, fault |-> 0, result |-> o.result,
                value |-> value]
    /\ UNCHANGED <<calls, issued>>

\* The service starts or starts again; the answer tells the rows there were
Startup(shouldSeed) ==
    /\ resp.op \in {"down", "none"}
    /\ SeedAnswer("onModuleInit", [shouldSeed |-> shouldSeed],
                  onModuleInit(State, shouldSeed),
                  <<[parts |-> parts, links |-> links, audit |-> audit]>>)

SeedCreatePart ==
    LET input == [name |-> <<110>>, partNumber |-> <<>>]
        o == createPart(State, input, 0)
    IN  /\ resp.op = "none"
        /\ SeedAnswer("createPart", input, o, o.value)

SeedUpdateBomLink(parentId, childId) ==
    LET input == LinkInput(parentId, childId, <<2>>)
        o == updateBomLink(State, input, 0)
    IN  /\ resp.op = "none"
        /\ SeedAnswer("updateBomLink", input, o, o.value)

SeedRemoveBomLink(parentId, childId) ==
    LET input == [parentId |-> parentId, childId |-> childId]
        o == removeBomLink(State, input, 0)
    IN  /\ resp.op = "none"
        /\ SeedAnswer("removeBomLink", input, o, o.value)

\* The first two parts, either way round
SeedPairs == {<<PartIdOf(1), PartIdOf(2)>>, <<PartIdOf(2), PartIdOf(1)>>}

SeedReturn ==
    /\ resp.op \notin {"down", "none"}
    /\ resp' = NoResp
    /\ UNCHANGED <<parts, links, audit, partIdSequence, auditLogSequence,
                   partNumberSequence, calls, issued>>

NextSeed ==
    \/ \E shouldSeed \in BOOLEAN : Startup(shouldSeed)
    \/ SeedCreatePart
    \/ \E pair \in SeedPairs : SeedUpdateBomLink(pair[1], pair[2])
    \/ \E pair \in SeedPairs : SeedRemoveBomLink(pair[1], pair[2])
    \/ SeedReturn

SpecSeed == InitSeed /\ [][NextSeed]_vars

---------------------------------------------------------------------------
(* isReachable and getBomTree turn by turn: every read of the store is a   *)
(* step of its own.  calls holds the one running call, or none.            *)

\* map with key set to value
Put(map, key, value) ==
    [k \in DOMAIN map \cup {key} |-> IF k = key THEN value ELSE map[k]]

\* How often the key was read so far, and one read more
Count(reads, key) == IF key \in DOMAIN reads THEN reads[key] ELSE 0
Counted(reads, key) == Put(reads, key, Count(reads, key) + 1)

\* The frame of a buildNode call that has just been entered
Frame(partId, currentDepth, quantityFromParent, path) ==
    [partId |-> partId, currentDepth |-> currentDepth,
     quantityFromParent |-> quantityFromParent, path |-> path,
     pc |-> "getPart", part |-> <<>>, childLinks |-> <<>>, next |-> 1, children |-> <<>>]

\* getBomTree after its checks: the root was read once, by requirePart
BuildFrom(rootPartId, depth, nodeLimit) ==
    [op |-> "getBomTree", rootPartId |-> rootPartId, depth |-> depth,
     nodeLimit |-> nodeLimit, nodeCount |-> 0,
     partCache |-> <<>>, childLinksCache |-> <<>>,
     partReads |-> Put(<<>>, rootPartId, 1), childLinksReads |-> <<>>,
     frames |-> <<Frame(rootPartId, 0, <<>>, {rootPartId})>>]

Running(call) == [done |-> FALSE, call |-> call, result |-> "none", value |-> <<>>]
Ended(call, result, value) == [done |-> TRUE, call |-> call, result |-> result, value |-> value]

\* The top frame replaced
WithTop(call, frame) == [call EXCEPT !.frames[Len(call.frames)] = frame]

\* buildNode up to the answer of getPart: the limit, the count, the part
\* from the partCache or from the store
getPartTurn(call, st) ==
    LET top == call.frames[Len(call.frames)]
        counted == [call EXCEPT !.nodeCount = @ + 1]
    IN  IF call.nodeCount >= call.nodeLimit THEN Ended(call, "NodeLimitExceeded", <<>>)
        ELSE IF top.partId \in DOMAIN call.partCache
        THEN Running(WithTop(counted, [top EXCEPT !.pc = "getChildLinks",
                                                  !.part = <<call.partCache[top.partId]>>]))
        ELSE IF ~requirePart(st, top.partId) THEN Ended(counted, "PartNotFound", <<>>)
        ELSE LET part == PartOf(st, top.partId)
             IN  Running(WithTop([counted EXCEPT !.partCache = Put(@, top.partId, part),
                                                 !.partReads = Counted(@, top.partId)],
                                 [top EXCEPT !.pc = "getChildLinks", !.part = <<part>>]))

\* Mutant of getChildLinksTurn: the child links are read from the store at
\* every node
getChildLinksTurnNoCache(call, st) ==
    LET top == call.frames[Len(call.frames)]
    IN  Running(WithTop([call EXCEPT !.childLinksReads = Counted(@, top.partId)],
                        [top EXCEPT !.pc = "loop",
                                    !.childLinks = getChildLinks(st, top.partId)]))

\* The answer of getChildLinks: from the childLinksCache or from the store
getChildLinksTurn(call, st) ==
    LET top == call.frames[Len(call.frames)]
    IN  IF top.partId \in DOMAIN call.childLinksCache
        THEN Running(WithTop(call, [top EXCEPT !.pc = "loop",
                                               !.childLinks = call.childLinksCache[top.partId]]))
        ELSE LET childLinks == getChildLinks(st, top.partId)
             IN  Running(WithTop([call EXCEPT !.childLinksCache = Put(@, top.partId, childLinks),
                                              !.childLinksReads = Counted(@, top.partId)],
                                 [top EXCEPT !.pc = "loop", !.childLinks = childLinks]))

\* One turn of the for loop of buildNode, or its return when the loop is over
loopTurn(call) ==
    LET top == call.frames[Len(call.frames)]
    IN  IF top.currentDepth < call.depth /\ top.next <= Len(top.childLinks)
        THEN LET link == top.childLinks[top.next]
                 advanced == WithTop(call, [top EXCEPT !.next = @ + 1])
             IN  IF link.childId \in top.path THEN Running(advanced)
                 ELSE Running([advanced EXCEPT !.frames =
                                  Append(@, Frame(link.childId, top.currentDepth + 1,
                                                  <<link.quantity>>,
                                                  top.path \cup {link.childId}))])
        ELSE LET node == [part |-> toPartSummary(top.part[1]),
                          hasChildren |-> top.childLinks # <<>>,
                          children |-> top.children,
                          quantityFromParent |-> top.quantityFromParent]
                 popped == SubSeq(call.frames, 1, Len(call.frames) - 1)
             IN  IF popped = <<>>
                 THEN Ended([call EXCEPT !.frames = popped], "ok",
                            <<[rootPartId |-> call.rootPartId,
                               requestedDepth |-> call.depth,
                               nodeLimit |-> call.nodeLimit,
                               nodeCount |-> call.nodeCount,
                               tree |-> node]>>)
                 ELSE Running([call EXCEPT !.frames =
                                  [popped EXCEPT ![Len(popped)].children = Append(@, node)]])

buildNodeTurn(call, st) ==
    LET pc == call.frames[Len(call.frames)].pc
    IN  IF pc = "getPart" THEN getPartTurn(call, st)
        ELSE IF pc = "getChildLinks" THEN getChildLinksTurn(call, st)
        ELSE loopTurn(call)

\* The stores the walks run on: the parts with up to MaxTreeLinks - 1 links,
\* also links that close a cycle
InitWalk ==
    \E rows \in {S \in SUBSET TreeLinkRows : Cardinality(S) <= MaxTreeLinks - 1} :
        LET st == StoreWithLinks(StoreWithParts(MaxParts), rows)
        IN  /\ parts = st.parts
            /\ links = st.links
            /\ audit = st.audit
            /\ partIdSequence = st.partIdSequence
            /\ auditLogSequence = st.auditLogSequence
            /\ partNumberSequence = st.partNumberSequence
            /\ resp = NoResp
            /\ calls = NoCalls
            /\ issued = {}

Idle == resp.op = "none" /\ calls = NoCalls

\* isReachable is called
BeginIsReachable(startPartId, targetPartId) ==
    /\ Idle
    /\ calls' = <<[op |-> "isReachable", startPartId |-> startPartId,
                   targetPartId |-> targetPartId, search |-> SearchFrom(startPartId)]>>
    /\ UNCHANGED <<parts, links, audit, partIdSequence, auditLogSequence,
                   partNumberSequence, resp, issued>>

\* One turn of the while loop of isReachable, with the answer of findMany
\* in an order the store picks; the call returns when the loop ends
WalkIsReachableTurn ==
    /\ calls # NoCalls
    /\ calls[1].op = "isReachable"
    /\ LET call == calls[1]
           partId == call.search.stack[Len(call.search.stack)]
       IN  \E childIds \in Orders(ChildIdSet(State, partId)) :
               LET search == isReachableStep(call.search, call.targetPartId, childIds)
               IN  IF SearchDone(search)
                   THEN /\ calls' = NoCalls
                        /\ resp' = [op |-> "isReachable",
                                    args |-> [startPartId |-> call.startPartId,
                                              targetPartId |-> call.targetPartId],
                                    fault |-> 0, result |-> "ok", value |-> <<search.found>>]
                   ELSE /\ calls' = <<[call EXCEPT !.search = search]>>
                        /\ resp' = resp
    /\ UNCHANGED <<parts, links, audit, partIdSequence, auditLogSequence,
                   partNumberSequence, issued>>

\* getBomTree is called: the root is looked up and the limits are checked
BeginGetBomTree(rootPartId, depth, nodeLimit) ==
    LET o == getBomTree(State, rootPartId, depth, nodeLimit)
        args == [rootPartId |-> rootPartId, depth |-> depth, nodeLimit |-> nodeLimit]
    IN  /\ Idle
        /\ IF o.result \in {"ok", "NodeLimitExceeded"}
           THEN /\ calls' = <<BuildFrom(rootPartId,
                                        IF depth = <<>> THEN 1 ELSE depth[1],
                                        IF nodeLimit = <<>> THEN maxExpandNodeLimit
                                        ELSE nodeLimit[1])>>
                /\ resp' = resp
           ELSE /\ calls' = calls
                /\ resp' = [op |-> "getBomTree", args |-> args, fault |-> 0,
                            result |-> o.result, value |-> <<>>]
        /\ UNCHANGED <<parts, links, audit, partIdSequence, auditLogSequence,
                       partNumberSequence, issued>>

\* One turn of the build; the call returns or throws when the build ends.
\* The answer tells how often the store was read for each part.
BuildNodeTurn ==
    /\ calls # NoCalls
    /\ calls[1].op = "getBomTree"
    /\ LET turn == buildNodeTurn(calls[1], State)
       IN  IF turn.done
           THEN /\ calls' = NoCalls
                /\ resp' = [op |-> "getBomTree",
                            args |-> [rootPartId |-> turn.call.rootPartId,
                                      depth |-> <<turn.call.depth>>,
                                      nodeLimit |-> <<turn.call.nodeLimit>>,
                                      partReads |-> turn.call.partReads,
                                      childLinksReads |-> turn.call.childLinksReads],
                            fault |-> 0, result |-> turn.result, value |-> turn.value]
           ELSE /\ calls' = <<turn.call>>
                /\ resp' = resp
    /\ UNCHANGED <<parts, links, audit, partIdSequence, auditLogSequence,
                   partNumberSequence, issued>>

WalkDepthInputs == {<<>>, <<2>>, <<5>>, <<6>>}
WalkNodeLimitInputs == {<<>>, <<3>>}

NextWalk ==
    \/ \E startPartId \in IdInputs, targetPartId \in IdInputs :
           BeginIsReachable(startPartId, targetPartId)
    \/ WalkIsReachableTurn
    \/ \E depth \in WalkDepthInputs, nodeLimit \in WalkNodeLimitInputs :
           BeginGetBomTree(PartIdOf(1), depth, nodeLimit)
    \/ BuildNodeTurn
    \/ Return

SpecWalk == InitWalk /\ [][NextWalk]_vars

\* A call that has begun gets its turns
SpecWalkFair ==
    SpecWalk /\ WF_vars(WalkIsReachableTurn) /\ WF_vars(BuildNodeTurn)

---------------------------------------------------------------------------
(* A getBomTree call turn by turn, with calls of other clients that change *)
(* links and parts between its turns.  issued holds those calls.           *)

\* A diamond below the first part, without and with a link back, and a part
\* used through two links in a row
BuildLinkSets ==
    LET Row(p, c) == [parentId |-> PartIdOf(p), childId |-> PartIdOf(c),
                      quantity |-> p * MaxParts + c]
    IN  {{Row(1, 2), Row(1, 3), Row(2, 3)},
         {Row(1, 2), Row(1, 3), Row(2, 3), Row(3, 2)},
         {Row(1, 2), Row(2, 3)}}

InitBuild ==
    \E rows \in BuildLinkSets :
        LET st == StoreWithLinks(StoreWithParts(MaxParts), rows)
        IN  /\ parts = st.parts
            /\ links = st.links
            /\ audit = st.audit
            /\ partIdSequence = st.partIdSequence
            /\ auditLogSequence = st.auditLogSequence
            /\ partNumberSequence = st.partNumberSequence
            /\ resp = NoResp
            /\ calls = NoCalls
            /\ issued = {}

\* A whole call of another client that succeeds while the build is running
Meanwhile(call, o) ==
    /\ calls # NoCalls
    /\ calls[1].op = "getBomTree"
    /\ o.result = "ok"
    /\ call \notin issued
    /\ Cardinality(issued) < MaxCalls - 1
    /\ issued' = issued \cup {call}
    /\ parts' = o.st.parts
    /\ links' = o.st.links
    /\ audit' = o.st.audit
    /\ partIdSequence' = o.st.partIdSequence
    /\ auditLogSequence' = o.st.auditLogSequence
    /\ partNumberSequence' = o.st.partNumberSequence
    /\ UNCHANGED <<resp, calls>>

MeanwhileCreateBomLink(parentId, childId) ==
    LET input == LinkInput(parentId, childId, <<>>)
    IN  Meanwhile([op |-> "createBomLink", input |-> input], createBomLink(State, input, 0))

MeanwhileUpdateBomLink(parentId, childId) ==
    LET input == LinkInput(parentId, childId, <<2>>)
    IN  Meanwhile([op |-> "updateBomLink", input |-> input], updateBomLink(State, input, 0))

MeanwhileRemoveBomLink(parentId, childId) ==
    LET input == [parentId |-> parentId, childId |-> childId]
    IN  Meanwhile([op |-> "removeBomLink", input |-> input], removeBomLink(State, input, 0))

\* The part gets the name x
MeanwhileUpdatePart(partId) ==
    LET input == [name |-> << <<120>> >>, partNumber |-> <<>>]
    IN  Meanwhile([op |-> "updatePart", input |-> [partId |-> partId]],
                  updatePart(State, partId, input, 0))

NextBuild ==
    \/ \E depth \in {<<2>>, <<5>>} : BeginGetBomTree(PartIdOf(1), depth, <<>>)
    \/ BuildNodeTurn
    \/ \E parentId \in IdInputs, childId \in IdInputs :
           MeanwhileCreateBomLink(parentId, childId)
    \/ \E parentId \in IdInputs, childId \in IdInputs :
           MeanwhileUpdateBomLink(parentId, childId)
    \/ \E parentId \in IdInputs, childId \in IdInputs :
           MeanwhileRemoveBomLink(parentId, childId)
    \/ \E partId \in IdInputs : MeanwhileUpdatePart(partId)
    \/ Return

SpecBuild == InitBuild /\ [][NextBuild]_vars

---------------------------------------------------------------------------
(* Part numbers over restarts.  Parts are created and renumbered one call  *)
(* at a time; between two calls the service may be restarted, which loses  *)
(* the counters and derives them again from the rows in the store          *)
(* (onModuleInit with SEED_SAMPLE_DATA=false).  issued records every part  *)
(* number a part has held.                                                 *)

\* none, "PRT-999999", "x"
NumberInputs ==
    {<<>>, << <<80, 82, 84, 45, 57, 57, 57, 57, 57, 57>> >>, << <<120>> >>}

NumbersRoom(o) ==
    /\ o.st.partIdSequence <= MaxParts + 1
    /\ o.st.auditLogSequence <= MaxAudit + 1

NumbersAnswer(op, args, o) ==
    /\ resp.op = "none"
    /\ NumbersRoom(o)
    /\ parts' = o.st.parts
    /\ links' = o.st.links
    /\ audit' = o.st.audit
    /\ partIdSequence' = o.st.partIdSequence
    /\ auditLogSequence' = o.st.auditLogSequence
    /\ partNumberSequence' = o.st.partNumberSequence
    /\ resp' = [op |-> op, args |-> args, fault |-> 0,
                result |-> o.result, value |-> o.value]
    /\ issued' = issued \cup {p.partNumber : p \in o.st.parts}
    /\ UNCHANGED calls

NumbersCreatePart(partNumber) ==
    LET input == [name |-> <<110>>, partNumber |-> partNumber]
    IN  NumbersAnswer("createPart", input, createPart(State, input, 0))

NumbersUpdatePart(partId, partNumber) ==
    LET input == [name |-> <<>>, partNumber |-> partNumber]
    IN  NumbersAnswer("updatePart",
                      [partId |-> partId, name |-> <<>>, partNumber |-> partNumber],
                      updatePart(State, partId, input, 0))

\* The process ends and a new one starts on the same store
Restart ==
    /\ resp.op = "none"
    /\ LET st == initializeSequences(State)
       IN  /\ partIdSequence' = st.partIdSequence
           /\ auditLogSequence' = st.auditLogSequence
           /\ partNumberSequence' = st.partNumberSequence
    /\ UNCHANGED <<parts, links, audit, resp, calls, issued>>

NextNumbers ==
    \/ \E partNumber \in NumberInputs : NumbersCreatePart(partNumber)
    \/ \E partId \in IdInputs, partNumber \in NumberInputs \ {<<>>} :
           NumbersUpdatePart(partId, partNumber)
    \/ Restart
    \/ Return

SpecNumbers == Init /\ [][NextNumbers]_vars

---------------------------------------------------------------------------
(* The BOM graph as a relation, for stating the claims *)

EdgePairs(linkRows) == {<<l.parentId, l.childId>> : l \in linkRows}

\* The ids that a directed path of one or more edges leads to from the ids in from
RECURSIVE Descendants(_, _, _)
Descendants(edges, from, seen) ==
    LET next == {e[2] : e \in {d \in edges : d[1] \in from}} \ seen
    IN  IF next = {} THEN seen ELSE Descendants(edges, next, seen \cup next)

PathExists(linkRows, fromId, toId) ==
    toId \in Descendants(EdgePairs(linkRows), {fromId}, {})

Acyclic(linkRows) ==
    \A e \in EdgePairs(linkRows) : ~PathExists(linkRows, e[2], e[1]) /\ e[1] # e[2]

PartIds == {p.id : p \in parts}

\* A call has just been answered in this step
Answered(op) == resp.op = "none" /\ resp'.op = op

---------------------------------------------------------------------------
(* Claims on calls that run one at a time *)

\* C1: from the empty store, after any sequence of createPart, updatePart,
\* createLink, updateLink and removeLink calls run one at a time, no part id
\* is reachable from itself along the BOM edges.
C1_Acyclic == Acyclic(links)

\* C1 witness: a createLink was refused as a cycle that is closed by a path
\* of two or more edges (no edge leads directly from the child to the parent).
C1_Witness ==
    /\ resp.op = "createBomLink"
    /\ resp.result = "Cycle"
    /\ FindLink(State, resp.args.childId, resp.args.parentId) = {}

\* C2's precondition, in the state before the call
C2_Pre(input) ==
    /\ input.parentId \in PartIds
    /\ input.childId \in PartIds
    /\ input.parentId # input.childId
    /\ IsPositiveInteger(GivenQuantity(input))
    /\ FindLink(State, input.parentId, input.childId) = {}

\* C2: createLink on two existing, distinct parts with a positive integer
\* quantity and no edge between them yet fails with the cycle error exactly
\* when a path leads from the child to the parent in the edges as they are
\* before the call; otherwise it succeeds and adds exactly that edge.
C2_CycleIffPath ==
    [][(Answered("createBomLink") /\ C2_Pre(resp'.args)) =>
         LET input == resp'.args
             path == PathExists(links, input.childId, input.parentId)
         IN  /\ (resp'.result = "Cycle") <=> path
             /\ path => links' = links
             /\ ~path =>
                  /\ resp'.result = "ok"
                  /\ links' = links \cup
                       {[parentId |-> input.parentId, childId |-> input.childId,
                         quantity |-> GivenQuantity(input)[1]]}
      ]_vars

\* C2 witness: a createLink succeeded below a parent that has a parent of its
\* own (there are edges to search, and none leads from the child back up).
C2_Witness ==
    /\ resp.op = "createBomLink"
    /\ resp.result = "ok"
    /\ \E l \in links : l.childId = resp.args.parentId

\* The first of createLink's five checks that fails, for C9
C9_FirstFailure(input) ==
    IF ~(input.parentId \in PartIds /\ input.childId \in PartIds) THEN "PartNotFound"
    ELSE IF input.parentId = input.childId THEN "SelfLink"
    ELSE IF ~IsPositiveInteger(GivenQuantity(input)) THEN "InvalidQuantity"
    ELSE IF \E l \in links : l.parentId = input.parentId /\ l.childId = input.childId
         THEN "LinkExists"
    ELSE IF PathExists(links, input.childId, input.parentId) THEN "Cycle"
    ELSE "ok"

\* C9: createLink checks, in this order, that both parts exist, that they
\* differ, that the quantity is a positive integer, that the pair has no edge
\* and that the child cannot reach the parent; its answer is the error of the
\* first check that fails.
C9_FirstFailingCheck ==
    [][Answered("createBomLink") => resp'.result = C9_FirstFailure(resp'.args)]_vars

\* C9 witness: a createLink with an invalid quantity on a pair that is
\* already linked was answered with the quantity error.
C9_Witness ==
    /\ resp.op = "createBomLink"
    /\ resp.result = "InvalidQuantity"
    /\ FindLink(State, resp.args.parentId, resp.args.childId) # {}

---------------------------------------------------------------------------
(* Claims on calls over a store whose writes may fail *)

TablesUnchanged == parts' = parts /\ links' = links /\ audit' = audit

\* C7: a createPart, updatePart, createLink, updateLink or removeLink call
\* that fails, a failure inside its transaction included, leaves the parts,
\* the edges and the audit entries as they were before the call.
C7_FailureLeavesNoTrace ==
    [][(resp.op = "none" /\ resp'.op # "none" /\ resp'.result # "ok")
         => TablesUnchanged]_vars

\* C7 witness: a createLink failed at its last audit write, after its edge
\* and its first audit entry had been written in the transaction.
C7_Witness ==
    /\ resp.op = "createBomLink"
    /\ resp.fault = 3
    /\ resp.result = "StorageError"

\* The audit log has grown by exactly one entry per given part id, each with
\* the given action
AuditAdded(partIdSet, action) ==
    LET n == Len(audit)
        k == Cardinality(partIdSet)
    IN  /\ Len(audit') = n + k
        /\ SubSeq(audit', 1, n) = audit
        /\ {audit'[i].partId : i \in (n + 1)..(n + k)} = partIdSet
        /\ \A i \in (n + 1)..(n + k) : audit'[i].action = action

\* C8: a successful mutation writes its audit entries in the step that makes
\* its data change: createPart one PART_CREATED entry, updatePart one
\* PART_UPDATED entry, createLink, updateLink and removeLink two entries each
\* with their action, one for the parent and one for the child; the tables
\* and the audit log change only together, in a successful call.
C8_AuditWithChange ==
    [][/\ (Answered("createPart") /\ resp'.result = "ok") =>
            /\ resp'.value[1] \notin parts
            /\ parts' = parts \cup {resp'.value[1]}
            /\ links' = links
            /\ AuditAdded({resp'.value[1].id}, "PART_CREATED")
       /\ (Answered("updatePart") /\ resp'.result = "ok") =>
            /\ parts' = {p \in parts : p.id # resp'.args.partId} \cup {resp'.value[1]}
            /\ resp'.value[1].id = resp'.args.partId
            /\ links' = links
            /\ AuditAdded({resp'.args.partId}, "PART_UPDATED")
       /\ (Answered("createBomLink") /\ resp'.result = "ok") =>
            /\ resp'.value[1] \notin links
            /\ links' = links \cup {resp'.value[1]}
            /\ parts' = parts
            /\ AuditAdded({resp'.args.parentId, resp'.args.childId}, "BOM_LINK_CREATED")
       /\ (Answered("updateBomLink") /\ resp'.result = "ok") =>
            /\ links' = (links \ FindLink(State, resp'.args.parentId, resp'.args.childId))
                          \cup {resp'.value[1]}
            /\ resp'.value[1].quantity = resp'.args.quantity[1]
            /\ parts' = parts
            /\ AuditAdded({resp'.args.parentId, resp'.args.childId}, "BOM_LINK_UPDATED")
       /\ (Answered("removeBomLink") /\ resp'.result = "ok") =>
            /\ FindLink(State, resp'.args.parentId, resp'.args.childId) # {}
            /\ links' = links \ FindLink(State, resp'.args.parentId, resp'.args.childId)
            /\ parts' = parts
            /\ AuditAdded({resp'.args.parentId, resp'.args.childId}, "BOM_LINK_REMOVED")
       /\ ~TablesUnchanged =>
            /\ resp.op = "none" /\ resp'.result = "ok"
            /\ audit' # audit
      ]_vars

\* C8 witness: an updateLink succeeded and its two entries end the audit log.
C8_Witness ==
    /\ resp.op = "updateBomLink"
    /\ resp.result = "ok"
    /\ Len(audit) >= 2
    /\ audit[Len(audit)].action = "BOM_LINK_UPDATED"

---------------------------------------------------------------------------
(* Claims on the tree expansion *)

RECURSIVE SumOver(_, _)
SumOver(f, S) ==
    IF S = {} THEN 0
    ELSE LET x == CHOOSE y \in S : TRUE IN f[x] + SumOver(f, S \ {x})

\* The edges that leave partId for a part that is not on the path
OpenEdges(linkRows, partId, path) ==
    {l \in linkRows : l.parentId = partId /\ l.childId \notin path}

\* The number of nodes of the expansion of partId to the given number of
\* further levels, ancestors skipped
RECURSIVE ExpansionSize(_, _, _, _)
ExpansionSize(linkRows, partId, path, levels) ==
    IF levels = 0 THEN 1
    ELSE LET open == OpenEdges(linkRows, partId, path)
         IN  1 + SumOver([l \in open |->
                            ExpansionSize(linkRows, l.childId, path \cup {l.childId},
                                          levels - 1)],
                         open)

RECURSIVE TreeSize(_)
TreeSize(node) ==
    1 + SumOver([i \in 1..Len(node.children) |-> TreeSize(node.children[i])],
                1..Len(node.children))

GivenDepth(args) == IF args.depth = <<>> THEN <<1>> ELSE args.depth
GivenNodeLimit(args) ==
    IF args.nodeLimit = <<>> THEN <<maxExpandNodeLimit>> ELSE args.nodeLimit

\* A getTree call has been answered whose root exists, whose depth is an
\* integer in 0..5 and whose nodeLimit is an integer in 1..80
TreeAnswered ==
    /\ resp.op = "getBomTree"
    /\ resp.args.rootPartId \in PartIds
    /\ IsInteger(GivenDepth(resp.args))
    /\ GivenDepth(resp.args)[1] \in 0..5
    /\ IsInteger(GivenNodeLimit(resp.args))
    /\ GivenNodeLimit(resp.args)[1] \in 1..80

TreeReturned == resp.op = "getBomTree" /\ resp.result = "ok"

\* C4: for an existing root, a depth in 0..5 and a nodeLimit in 1..80,
\* getTree succeeds exactly when the depth-bounded expansion (ancestors
\* skipped) has at most nodeLimit nodes; then nodeCount is the number of
\* nodes of the returned tree and is at most nodeLimit; otherwise the call
\* fails with the node-limit error and returns no tree.
C4_NodeLimit ==
    TreeAnswered =>
        LET root == resp.args.rootPartId
            size == ExpansionSize(links, root, {root}, GivenDepth(resp.args)[1])
            nodeLimit == GivenNodeLimit(resp.args)[1]
        IN  /\ (resp.result = "ok") <=> (size <= nodeLimit)
            /\ resp.result = "ok" =>
                 /\ resp.value[1].nodeCount = TreeSize(resp.value[1].tree)
                 /\ resp.value[1].nodeCount = size
                 /\ resp.value[1].nodeCount <= nodeLimit
            /\ resp.result # "ok" =>
                 /\ resp.result = "NodeLimitExceeded"
                 /\ resp.value = <<>>

\* C4 witness: an expansion of more than two levels was refused because it
\* has exactly one node more than the limit allows.
C4_Witness ==
    /\ TreeAnswered
    /\ resp.result = "NodeLimitExceeded"
    /\ GivenDepth(resp.args)[1] >= 2
    /\ ExpansionSize(links, resp.args.rootPartId, {resp.args.rootPartId},
                     GivenDepth(resp.args)[1]) = GivenNodeLimit(resp.args)[1] + 1

RECURSIVE NoAncestorRepeats(_, _)
NoAncestorRepeats(node, ancestors) ==
    /\ node.part.id \notin ancestors
    /\ \A i \in 1..Len(node.children) :
           NoAncestorRepeats(node.children[i], ancestors \cup {node.part.id})

\* C5: in every returned tree, over every edge set, cyclic ones included, no
\* node has the part id of one of its ancestors, the root included; an edge
\* that leads to an ancestor adds no node and is not counted in nodeCount.
C5_NoAncestorRepeated ==
    TreeReturned =>
        /\ NoAncestorRepeats(resp.value[1].tree, {})
        /\ resp.value[1].tree.part.id = resp.args.rootPartId
        /\ resp.value[1].nodeCount = TreeSize(resp.value[1].tree)

\* C5 witness: a tree of two or more levels was returned for a root that
\* lies on a cycle, and the edge back to the root was reached.
C5_Witness ==
    /\ TreeReturned
    /\ resp.value[1].requestedDepth >= 2
    /\ \E i \in 1..Len(resp.value[1].tree.children) :
           \E l \in links :
               /\ l.parentId = resp.value[1].tree.children[i].part.id
               /\ l.childId = resp.args.rootPartId

\* node, at depth currentDepth below the given path, has the shape that C6
\* states for the requested depth
RECURSIVE DepthShaped(_, _, _, _)
DepthShaped(node, path, currentDepth, depth) ==
    LET open == OpenEdges(links, node.part.id, path)
    IN  /\ currentDepth <= depth
        /\ currentDepth = depth => node.children = <<>>
        /\ currentDepth < depth =>
             /\ Len(node.children) = Cardinality(open)
             /\ \A l \in open : \E i \in 1..Len(node.children) :
                    /\ node.children[i].part.id = l.childId
                    /\ node.children[i].quantityFromParent = <<l.quantity>>
             /\ \A i \in 1..Len(node.children) :
                    DepthShaped(node.children[i],
                                path \cup {node.children[i].part.id},
                                currentDepth + 1, depth)

\* C6: in a successful response with requested depth d every node lies at
\* depth <= d; a node at depth < d has exactly one child for each outgoing
\* edge of its part whose child is not on the node's root path; a node at
\* depth d has no children; with d = 0 the tree is the root alone and
\* nodeCount is 1.
C6_DepthShape ==
    TreeReturned =>
        LET response == resp.value[1]
        IN  /\ response.requestedDepth = GivenDepth(resp.args)[1]
            /\ DepthShaped(response.tree, {resp.args.rootPartId}, 0,
                           response.requestedDepth)
            /\ response.requestedDepth = 0 =>
                 /\ response.tree.children = <<>>
                 /\ response.tree.part.id = resp.args.rootPartId
                 /\ response.nodeCount = 1

\* C6 witness: a tree of depth 1 was returned in which a child has children
\* of its own in the store that the tree does not show.
C6_Witness ==
    /\ TreeReturned
    /\ resp.value[1].requestedDepth = 1
    /\ \E i \in 1..Len(resp.value[1].tree.children) :
           /\ resp.value[1].tree.children[i].hasChildren
           /\ resp.value[1].tree.children[i].children = <<>>
           /\ OpenEdges(links, resp.value[1].tree.children[i].part.id,
                        {resp.args.rootPartId,
                         resp.value[1].tree.children[i].part.id}) # {}

---------------------------------------------------------------------------
(* Claims on overlapping link calls *)

\* C3: the BOM edges are acyclic in every reachable state also when
\* createLink calls overlap and interleave at their await points.
C3_AcyclicInterleaved == \A id \in PartIds : ~PathExists(links, id, id)

UniquePairs(linkRows) ==
    \A a, b \in linkRows :
        (a.parentId = b.parentId /\ a.childId = b.childId) => a = b

\* The call takes this step and stands as next after it
Steps(call, next) == call # next /\ calls' = Moved(call, next)

---------------------------------------------------------------------------
(* Further claims on calls that run one at a time *)

\* C12: in every reachable state every stored edge has parentId # childId,
\* a quantity that is an integer greater than 0, and a parentId and a
\* childId that are ids of existing parts.
C12_EdgesWellFormed ==
    \A l \in links :
        /\ l.parentId # l.childId
        /\ l.quantity \in Nat \ {0}
        /\ l.parentId \in PartIds
        /\ l.childId \in PartIds

\* C12 witness: the store holds an edge, and a createLink of a part to
\* itself has just been refused.
C12_Witness ==
    /\ links # {}
    /\ resp.op = "createBomLink"
    /\ resp.args.parentId = resp.args.childId
    /\ resp.result = "SelfLink"

\* updateLink is called on two existing parts that no edge joins
NoEdgeBetweenParts(input) ==
    /\ input.parentId \in PartIds
    /\ input.childId \in PartIds
    /\ FindLink(State, input.parentId, input.childId) = {}

\* C15 as first stated: updateLink on two existing parts with no edge
\* between them fails with the not-found error, whatever the quantity is.
C15_NotFoundForEveryQuantity ==
    [][(Answered("updateBomLink") /\ NoEdgeBetweenParts(resp'.args)) =>
         resp'.result = "LinkNotFound"]_vars

\* C15: updateLink on two existing parts with no edge between them fails
\* and changes nothing: with the not-found error when the quantity is a
\* positive integer, with the quantity error when it is not.
C15_NotFoundForValidQuantity ==
    [][(Answered("updateBomLink") /\ NoEdgeBetweenParts(resp'.args)) =>
         /\ resp'.result = IF IsPositiveInteger(resp'.args.quantity)
                           THEN "LinkNotFound" ELSE "InvalidQuantity"
         /\ TablesUnchanged]_vars

\* C15 witness: an updateLink with a quantity of 0 on two existing parts
\* that no edge joins was answered with the quantity error.
C15_Witness ==
    /\ resp.op = "updateBomLink"
    /\ resp.args.quantity = <<0>>
    /\ resp.args.parentId \in PartIds
    /\ resp.args.childId \in PartIds
    /\ FindLink(State, resp.args.parentId, resp.args.childId) = {}
    /\ resp.result = "InvalidQuantity"

---------------------------------------------------------------------------
(* Claims on overlapping part calls *)

UniqueNumbers(partRows) ==
    \A a, b \in partRows : a.partNumber = b.partNumber => a = b

\* The call was given a part number, and a part other than its own holds it
HeldByAnother(call) ==
    /\ call.input.partNumber # <<>>
    /\ \E p \in parts : /\ p.partNumber = call.local.partNumber
                        /\ p.id # call.input.partId

\* C11: under every interleaving of createPart and updatePart calls, with
\* or without a part number, no two stored parts have the same part number;
\* a call that was given a number which a different part holds when the
\* call looks the number up or writes it ends there with an error, and the
\* parts stay as they are.
C11_UniquePartNumbers ==
    [][/\ UniqueNumbers(parts)
       /\ UniqueNumbers(parts')
       /\ \A call \in BagToSet(calls), next \in BagToSet(calls') :
            (call.pc \in {"assert", "transaction"} /\ Steps(call, next)
             /\ HeldByAnother(call)) =>
                /\ next.pc = "done"
                /\ next.result # "ok"
                /\ call.pc = "assert" => next.result = "PartNumberExists"
                /\ parts' = parts
      ]_vars

\* C11 witness: two parts are stored, and a call that had found its number
\* free was refused by the store when it wrote it, another call having
\* taken the number in between.
C11_Witness ==
    /\ Cardinality(parts) > 1
    /\ \E call \in BagToSet(calls) :
           /\ call.pc = "done"
           /\ call.result = "StorageError"

---------------------------------------------------------------------------
(* Claims on BomService in front of the store *)

\* C13 as stated: a remove-link request for two existing parts that no edge
\* joins is answered with the not-found error ('No BOM link exists between
\* ...'), never with the success message.
C13_RemoveMissingLinkFails ==
    [][(Answered("removeBomLink") /\ NoEdgeBetweenParts(resp'.args)) =>
         resp'.result = "LinkNotFound"]_vars

\* The children that a read of the part shows: childParts of getPartDetails,
\* the root's children of getBomTree
ShownChildren ==
    IF resp'.op = "getPartDetails"
    THEN {resp'.value[1].childParts[i].id : i \in 1..Len(resp'.value[1].childParts)}
    ELSE {resp'.value[1].tree.children[i].part.id :
              i \in 1..Len(resp'.value[1].tree.children)}

ReadOf(partId) ==
    /\ resp.op = "none"
    /\ resp'.result = "ok"
    /\ \/ resp'.op = "getPartDetails" /\ resp'.args.partId = partId
       \/ resp'.op = "getBomTree" /\ resp'.args.rootPartId = partId

\* C14 as stated: once a remove-link request has been answered with the
\* success message, a getPartDetails or getBomTree call that starts after
\* the answer does not show the child under the parent.  (Every remove
\* request in calls has been answered with the success message; one that is
\* done has removed its edge or found none.)
C14_ReadsAfterRemoval ==
    [][\A call \in BagToSet(calls) :
           (call.op = "removeBomLink" /\ call.pc # "done"
            /\ ReadOf(call.input.parentId)) =>
               call.input.childId \notin ShownChildren]_vars

\* The store after the step
StateAfter ==
    [parts |-> parts', links |-> links', audit |-> audit',
     partIdSequence |-> partIdSequence',
     auditLogSequence |-> auditLogSequence',
     partNumberSequence |-> partNumberSequence']

\* C16: a successful updateLink sets the quantity of that one edge to the
\* given value; the pairs of the edges, the quantities of all other edges
\* and the parts stay as they are, and with them the paths of the graph; a
\* getPartDetails of the parent that follows reports the new quantity for
\* that child.
C16_UpdateSetsOneQuantity ==
    [][(Answered("updateBomLink") /\ resp'.result = "ok") =>
         LET in == resp'.args
             details == getPartDetails(StateAfter, in.parentId).value[1]
         IN  /\ \E l \in links' : /\ l.parentId = in.parentId
                                  /\ l.childId = in.childId
                                  /\ l.quantity = in.quantity[1]
             /\ EdgePairs(links') = EdgePairs(links)
             /\ UniquePairs(links')
             /\ \A l \in links :
                    (l.parentId # in.parentId \/ l.childId # in.childId) => l \in links'
             /\ parts' = parts
             /\ \A a, b \in PartIds : PathExists(links', a, b) <=> PathExists(links, a, b)
             /\ \E i \in 1..Len(details.childParts) :
                    /\ details.childParts[i].id = in.childId
                    /\ details.childParts[i].quantity = in.quantity[1]
             /\ \A i \in 1..Len(details.childParts) :
                    details.childParts[i].id = in.childId =>
                        details.childParts[i].quantity = in.quantity[1]
      ]_vars

\* C16 witness: an updateLink has succeeded on one of two edges of a parent.
C16_Witness ==
    /\ resp.op = "updateBomLink"
    /\ resp.result = "ok"
    /\ Cardinality({l \in links : l.parentId = resp.args.parentId}) > 1

---------------------------------------------------------------------------
(* Claims on reads over a stored graph *)

\* The rows are in strictly ascending order of their part numbers
AscendingPartNumbers(rows) ==
    \A i \in 1..(Len(rows) - 1) : StrLess(rows[i].partNumber, rows[i + 1].partNumber)

RECURSIVE ChildrenAscending(_)
ChildrenAscending(node) ==
    /\ AscendingPartNumbers([i \in 1..Len(node.children) |-> node.children[i].part])
    /\ \A i \in 1..Len(node.children) : ChildrenAscending(node.children[i])

IdsOf(rows) == [i \in 1..Len(rows) |-> rows[i].id]

Returned(op) == resp.op = op /\ resp.result = "ok"

\* C21: the children of every node of a getTree response and the childParts
\* of getPartDetails are in ascending order of the child's part number, so
\* that the root's children come in the order of the root's childParts;
\* parentParts are in ascending order of the parent's part number.
C21_OrderedByPartNumber ==
    /\ Returned("getBomTree") =>
          LET tree == resp.value[1].tree
              details == getPartDetails(State, resp.args.rootPartId).value[1]
          IN  /\ ChildrenAscending(tree)
              /\ IdsOf([i \in 1..Len(tree.children) |-> tree.children[i].part])
                    = IdsOf(details.childParts)
    /\ Returned("getPartDetails") =>
          /\ AscendingPartNumbers(resp.value[1].childParts)
          /\ AscendingPartNumbers(resp.value[1].parentParts)

\* C21 witness: getPartDetails lists two children of which the first has
\* the greater id.
C21_Witness ==
    /\ Returned("getPartDetails")
    /\ Len(resp.value[1].childParts) > 1
    /\ StrLess(resp.value[1].childParts[2].id, resp.value[1].childParts[1].id)

\* C23: getPartDetails(P) reports childCount as the number of edges with
\* parentId = P and parentCount as the number of edges with childId = P; B
\* is among the childParts of A exactly when A is among the parentParts of
\* B; a part that createPart has just created has parentCount = 0 and
\* childCount = 0.
C23_CountsMatchEdges ==
    [][/\ (resp'.op = "getPartDetails" /\ resp'.result = "ok") =>
            LET details == resp'.value[1]
            IN  /\ details.childCount =
                       Cardinality({l \in links' : l.parentId = details.id})
                /\ details.parentCount =
                       Cardinality({l \in links' : l.childId = details.id})
                /\ details.childCount = Len(details.childParts)
                /\ details.parentCount = Len(details.parentParts)
       /\ \A a, b \in PartIds :
            LET ofA == getPartDetails(State, a).value[1]
                ofB == getPartDetails(State, b).value[1]
            IN  (\E i \in 1..Len(ofA.childParts) : ofA.childParts[i].id = b)
                <=> (\E i \in 1..Len(ofB.parentParts) : ofB.parentParts[i].id = a)
       /\ (Answered("createPart") /\ resp'.result = "ok") =>
            LET details == getPartDetails(StateAfter, resp'.value[1].id).value[1]
            IN  details.parentCount = 0 /\ details.childCount = 0
      ]_vars

\* C23 witness: getPartDetails has answered for a part that has parents and
\* children, more of the ones than of the others.
C23_Witness ==
    /\ Returned("getPartDetails")
    /\ resp.value[1].parentCount > 0
    /\ resp.value[1].childCount > 0
    /\ resp.value[1].parentCount # resp.value[1].childCount

\* The part satisfies the filters as they are given
MatchesGiven(p, filters) ==
    /\ filters.partNumber # <<>> => ContainsInsensitive(p.partNumber, filters.partNumber[1])
    /\ filters.name # <<>> => ContainsInsensitive(p.name, filters.name[1])
    /\ filters.q # <<>> => \/ ContainsInsensitive(p.name, filters.q[1])
                          \/ ContainsInsensitive(p.partNumber, filters.q[1])

\* A filter that is given and not blank, without the white space around it
Effective(filter) ==
    IF filter = <<>> \/ Trim(filter[1]) = <<>> THEN <<>> ELSE <<Trim(filter[1])>>

EffectiveFilters(filters) ==
    [partNumber |-> Effective(filters.partNumber), name |-> Effective(filters.name),
     q |-> Effective(filters.q)]

RowsOf(rows) == {rows[i] : i \in 1..Len(rows)}

\* C24 as first stated: searchParts returns exactly the parts that satisfy
\* every given filter (partNumber and name: case-insensitive substring of
\* the field; q: of the name or the part number), all parts when no filter
\* is given, in ascending order of the part numbers.
C24_SearchMatchesGivenFilters ==
    Returned("searchParts") =>
        /\ RowsOf(resp.value[1]) = {toPartSummary(p) : p \in {r \in parts : MatchesGiven(r, resp.args)}}
        /\ AscendingPartNumbers(resp.value[1])

\* C24: the same, with every filter taken without the white space around
\* it and a filter that is blank taken as not given.
C24_SearchMatchesTrimmedFilters ==
    Returned("searchParts") =>
        /\ RowsOf(resp.value[1]) =
              {toPartSummary(p) :
                   p \in {r \in parts : MatchesGiven(r, EffectiveFilters(resp.args))}}
        /\ EffectiveFilters(resp.args) = [partNumber |-> <<>>, name |-> <<>>, q |-> <<>>]
              => Len(resp.value[1]) = Cardinality(parts)
        /\ AscendingPartNumbers(resp.value[1])

\* C24 witness: a search by q alone has found a part by its name and
\* another by its part number, the first of them with the greater id.
C24_Witness ==
    /\ Returned("searchParts")
    /\ resp.args.partNumber = <<>>
    /\ resp.args.name = <<>>
    /\ resp.args.q # <<>>
    /\ \E i, j \in 1..Len(resp.value[1]) :
           /\ i < j
           /\ StrLess(resp.value[1][j].id, resp.value[1][i].id)
           /\ ~ContainsInsensitive(resp.value[1][i].partNumber, Trim(resp.args.q[1]))
           /\ ~ContainsInsensitive(resp.value[1][j].name, Trim(resp.args.q[1]))

\* The decimal notation of an integer
Decimal(n) == IF n < 0 THEN <<45>> \o DigitsOf(0 - n) ELSE DigitsOf(n)

ValidationErrors ==
    {"InvalidDepth", "DepthTooLarge", "InvalidNodeLimit", "NodeLimitTooLarge",
     "DepthNotANumber", "NodeLimitNotANumber"}

Refused == resp.result \in ValidationErrors /\ resp.value = <<>>

\* A depth or nodeLimit as the store takes it is an integer of lo..hi
IntegerIn(number, lo, hi) == Len(number) = 1 /\ number[1] \in lo..hi

\* A query is left out or writes an integer of lo..hi
QueryIn(query, lo, hi) == query = <<>> \/ \E n \in lo..hi : query = <<Decimal(n)>>

\* C22: getBomTree refuses with a validation error and no tree, for a root
\* that exists, a depth that is not an integer of 0..5 and a nodeLimit that is
\* not an integer of 1..80; it answers not found for a root that does not
\* exist; a depth query "all" is taken as 5, accepted and reported as
\* requestedDepth 5; a depth left out is 1 and a nodeLimit left out is 80.
C22_TreeValidation ==
    /\ resp.op = "getBomTree" =>
           /\ resp.args.rootPartId \notin PartIds => resp.result = "PartNotFound"
           /\ /\ resp.args.rootPartId \in PartIds
              /\ \/ resp.args.depth # <<>> /\ ~IntegerIn(resp.args.depth, 0, 5)
                 \/ resp.args.nodeLimit # <<>> /\ ~IntegerIn(resp.args.nodeLimit, 1, 80)
              => Refused
           /\ resp.result = "ok" /\ resp.args.depth = <<>>
              => resp.value[1].requestedDepth = 1
           /\ resp.result = "ok" /\ resp.args.nodeLimit = <<>>
              => resp.value[1].nodeLimit = 80
    /\ resp.op = "bomGetBomTree" =>
           /\ /\ resp.args.rootPartId \notin PartIds
              /\ \/ resp.args.depthQuery = <<AllLiteral>>
                 \/ QueryIn(resp.args.depthQuery, -1, 7)
              /\ QueryIn(resp.args.nodeLimitQuery, 0, 81)
              => resp.result = "PartNotFound"
           /\ /\ resp.args.rootPartId \in PartIds
              /\ \/ \E n \in {-1, 6, 7} : resp.args.depthQuery = <<Decimal(n)>>
                 \/ \E n \in {0, 81} : resp.args.nodeLimitQuery = <<Decimal(n)>>
              => Refused
           /\ /\ resp.args.rootPartId \in PartIds
              /\ resp.args.depthQuery = <<AllLiteral>>
              /\ QueryIn(resp.args.nodeLimitQuery, 1, 80)
              => /\ resp.result \in {"ok", "NodeLimitExceeded"}
                 /\ resp.result = "ok" => resp.value[1].requestedDepth = 5
           /\ resp.result = "ok" /\ resp.args.depthQuery = <<>>
              => resp.value[1].requestedDepth = 1
           /\ resp.result = "ok" /\ resp.args.nodeLimitQuery = <<>>
              => resp.value[1].nodeLimit = 80

\* A depth query "all" answered with requestedDepth 5 and a tree of three levels
C22_Witness ==
    /\ resp.op = "bomGetBomTree"
    /\ resp.args.depthQuery = <<AllLiteral>>
    /\ resp.result = "ok"
    /\ resp.value[1].requestedDepth = 5
    /\ \E i \in 1..Len(resp.value[1].tree.children) :
           resp.value[1].tree.children[i].children # <<>>

---------------------------------------------------------------------------
(* Claims on the audit log and on the stored parts *)

AuditActions ==
    {"PART_CREATED", "PART_UPDATED", "BOM_LINK_CREATED", "BOM_LINK_UPDATED",
     "BOM_LINK_REMOVED"}

\* The entries getPartAuditLogs returns for a part
LogsOf(st, partId) == getPartAuditLogs(st, partId).value[1]

\* later holds every entry of earlier, unchanged and in its place from the end
GrownFrom(later, earlier) ==
    /\ Len(later) >= Len(earlier)
    /\ SubSeq(later, Len(later) - Len(earlier) + 1, Len(later)) = earlier

\* C25: the audit log is append-only: no step removes or changes an entry
\* that was written, every entry has one of the five actions and the id of a
\* stored part, and the entries returned for a part only grow.
C25_AuditAppendOnly ==
    [][/\ Len(audit') >= Len(audit)
       /\ SubSeq(audit', 1, Len(audit)) = audit
       /\ \A i \in 1..Len(audit') :
              /\ audit'[i].action \in AuditActions
              /\ \E p \in parts' : p.id = audit'[i].partId
       /\ audit' # audit =>
              \A partId \in PartIds :
                  GrownFrom(LogsOf(StateAfter, partId), LogsOf(State, partId))]_vars

\* Entries of a removed link and of an update follow entries of creations,
\* and the log of a part is shorter than the whole log
C25_Witness ==
    /\ \E i, j, k \in 1..Len(audit) :
           /\ i < j /\ j < k
           /\ audit[i].action = "BOM_LINK_CREATED"
           /\ audit[j].action = "BOM_LINK_REMOVED"
           /\ audit[k].action \in {"PART_UPDATED", "BOM_LINK_CREATED"}
    /\ \E partId \in PartIds :
           /\ Len(LogsOf(State, partId)) >= 3
           /\ Len(LogsOf(State, partId)) < Len(audit)

PartWellFormed(p) ==
    /\ Trim(p.name) # <<>>
    /\ p.partNumber # <<>>
    /\ Trim(p.partNumber) = p.partNumber
    /\ ToUpperCase(p.partNumber) = p.partNumber

\* The optional string is supplied and trims to empty
SuppliedBlank(given) == given # <<>> /\ Trim(given[1]) = <<>>

\* C26: every stored part has a name that is not empty after trimming and a
\* partNumber that is not empty, trimmed and uppercase; updatePart of a
\* stored part leaves the ids of the parts as they are, and fails with a
\* validation error, changing nothing, when the name or the partNumber it is
\* given trims to empty.
C26_PartsWellFormed ==
    /\ \A p \in parts : PartWellFormed(p)
    /\ [][/\ \A p \in parts' : PartWellFormed(p)
          /\ (Answered("updatePart") /\ resp'.args.partId \in PartIds) =>
                 /\ {p.id : p \in parts'} = PartIds
                 /\ resp'.result = "ok" => resp'.value[1].id = resp'.args.partId
                 /\ SuppliedBlank(resp'.args.name) =>
                        /\ resp'.result = "PartNameEmpty"
                        /\ TablesUnchanged
                        /\ partNumberSequence' = partNumberSequence
                 /\ SuppliedBlank(resp'.args.partNumber) =>
                        /\ resp'.result \in {"PartNameEmpty", "PartNumberEmpty"}
                        /\ TablesUnchanged
                        /\ partNumberSequence' = partNumberSequence]_vars

\* An update with a blank partNumber was refused for a stored part that an
\* earlier update had changed
C26_Witness ==
    /\ resp.op = "updatePart"
    /\ resp.result = "PartNumberEmpty"
    /\ \E p \in parts :
           /\ p.id = resp.args.partId
           /\ \E i \in 1..Len(audit) :
                  audit[i].partId = p.id /\ audit[i].action = "PART_UPDATED"

---------------------------------------------------------------------------
(* Claims on the startup seed *)

Tables(st) == [parts |-> st.parts, links |-> st.links, audit |-> st.audit]

\* C27: the startup seed is idempotent: a startup with seeding on the store
\* that a startup with seeding has left, with no call in between, adds and
\* changes no part, no edge and no audit entry; from the empty store two
\* startups leave what one leaves.
C27_SeedIdempotent ==
    LET once == onModuleInit(State, TRUE).st
        twice == onModuleInit(once, TRUE).st
    IN  Tables(twice) = Tables(once)

\* A startup has seeded a store that held all the seeded parts and links
\* and has left its tables as they were
C27_Witness ==
    /\ resp.op = "onModuleInit"
    /\ resp.args.shouldSeed
    /\ resp.result = "ok"
    /\ resp.value[1] = Tables(State)
    /\ Cardinality(parts) >= Len(SEED_PARTS)
    /\ Cardinality(links) = Len(SEED_BOM_LINKS)

\* C28: a startup with seeding inserts parts and links only into an empty
\* store: when the store holds a part, the startup adds no part and no edge.
C28_SeedOnlyIntoEmptyStore ==
    [][(Answered("onModuleInit") \/ (resp.op = "down" /\ resp'.op = "onModuleInit"))
         /\ resp'.args.shouldSeed /\ parts # {}
         => parts' = parts /\ links' = links]_vars

---------------------------------------------------------------------------
(* Claims on the walks over the graph *)

\* C29: isReachable and getBomTree end on every store, also on one whose
\* links close cycles: a call that has begun returns or throws; and
\* isReachable answers true exactly when start and target are the same part
\* or a path of links leads from start to target.
C29_WalksTerminate ==
    /\ [](resp.op = "isReachable" =>
             (resp.value[1] <=>
                 \/ resp.args.startPartId = resp.args.targetPartId
                 \/ PathExists(links, resp.args.startPartId, resp.args.targetPartId)))
    /\ ((calls # NoCalls) ~> (calls = NoCalls))

\* isReachable has answered false from a start that lies on a cycle
C29_Witness ==
    /\ resp.op = "isReachable"
    /\ resp.value[1] = FALSE
    /\ PathExists(links, resp.args.startPartId, resp.args.startPartId)

\* What the nodes of a tree tell of their parts: part summary and hasChildren
RECURSIVE Told(_)
Told(node) ==
    {[part |-> node.part, hasChildren |-> node.hasChildren]} \cup
    UNION {Told(node.children[i]) : i \in 1..Len(node.children)}

\* The nodes of the answered tree that carry one part id tell the same
SamePartToldAlike ==
    (resp.op = "getBomTree" /\ resp.result = "ok") =>
        \A a, b \in Told(resp.value[1].tree) : a.part.id = b.part.id => a = b

\* A turn of the build changes no part, no link and no audit entry
BuildWritesNothing ==
    [][(calls # NoCalls /\ calls[1].op = "getBomTree" /\ calls' # calls)
         => TablesUnchanged]_vars

\* The child links of every part were read at most once
ChildLinksReadOnce ==
    (resp.op = "getBomTree" /\ resp.result \in {"ok", "NodeLimitExceeded"}) =>
        \A partId \in DOMAIN resp.args.childLinksReads :
            resp.args.childLinksReads[partId] <= 1

\* C30, as claimed: within one getBomTree call every part and the child
\* links of every part are read from the store at most once; with calls that
\* change links between the turns of the build, the nodes that carry one
\* part id have the same hasChildren and the same part summary; the build
\* writes nothing.
C30_EveryPartReadOnce ==
    /\ [](/\ ChildLinksReadOnce
          /\ (resp.op = "getBomTree" /\ resp.result \in {"ok", "NodeLimitExceeded"}) =>
                 \A partId \in DOMAIN resp.args.partReads :
                     resp.args.partReads[partId] <= 1
          /\ SamePartToldAlike)
    /\ BuildWritesNothing

\* C30, amended: the build reads every part and the child links of every
\* part at most once; the root is read once more before the build, by the
\* check that it exists.  The rest as claimed.
C30_BuildReadsOnce ==
    /\ [](/\ ChildLinksReadOnce
          /\ (resp.op = "getBomTree" /\ resp.result \in {"ok", "NodeLimitExceeded"}) =>
                 \A partId \in DOMAIN resp.args.partReads :
                     resp.args.partReads[partId] <=
                         (IF partId = resp.args.rootPartId THEN 2 ELSE 1)
          /\ SamePartToldAlike)
    /\ BuildWritesNothing

\* A tree was answered in which a part is told twice, with child links, while
\* the store holds no child link of it any more
C30_Witness ==
    /\ resp.op = "getBomTree"
    /\ resp.result = "ok"
    /\ \E i, j \in 1..Len(resp.value[1].tree.children) :
           /\ i # j
           /\ \E k \in 1..Len(resp.value[1].tree.children[j].children) :
                  LET a == resp.value[1].tree.children[i]
                      b == resp.value[1].tree.children[j].children[k]
                  IN  /\ a.part.id = b.part.id
                      /\ a.hasChildren
                      /\ ~\E l \in links : l.parentId = a.part.id

---------------------------------------------------------------------------
(* Claims on part numbers over restarts *)

\* A createPart that was given no part number has just succeeded
AutoNumbered == Answered("createPart") /\ resp'.args.partNumber = <<>> /\ resp'.result = "ok"

\* C17: the part number that createPart allocates is never one that a part
\* has held before, whether allocated or supplied through createPart or
\* updatePart, also after a restart that derives the counter from the store
\* and also when a part that held a PRT number was given another number.
C17_NeverReissued ==
    [][AutoNumbered => resp'.value[1].partNumber \notin issued]_vars

\* "PRT-" followed by exactly six decimal digits
SixDigitForm(partNumber) ==
    /\ Len(partNumber) = Len(PartNumberPrefix) + 6
    /\ MatchesNumbered(PartNumberPrefix, partNumber)

\* C18: every createPart without a part number returns a part number of
\* the form PRT- and exactly six digits, whatever the counter has reached
\* (also after PRT-999999 was supplied).
C18_SixDigits ==
    [][AutoNumbered => SixDigitForm(resp'.value[1].partNumber)]_vars

---------------------------------------------------------------------------
(* Further claims on the tree expansion *)

RECURSIVE HasChildrenTrue(_)
HasChildrenTrue(node) ==
    /\ node.hasChildren <=> (\E l \in links : l.parentId = node.part.id)
    /\ \A i \in 1..Len(node.children) : HasChildrenTrue(node.children[i])

\* C19: in every successful getTree response each node's hasChildren is
\* true exactly when the node's part has an outgoing edge in the store,
\* whether or not its children were expanded and whether or not its child
\* edges were skipped as ancestors.
C19_HasChildren == TreeReturned => HasChildrenTrue(resp.value[1].tree)

\* C19 witness: in a tree of two or more levels a child of the root shows no
\* children although it has an outgoing edge: the edge leads to an ancestor.
C19_Witness ==
    /\ TreeReturned
    /\ resp.value[1].requestedDepth >= 2
    /\ \E i \in 1..Len(resp.value[1].tree.children) :
           /\ resp.value[1].tree.children[i].hasChildren
           /\ resp.value[1].tree.children[i].children = <<>>

RECURSIVE QuantitiesFromEdges(_)
QuantitiesFromEdges(node) ==
    \A i \in 1..Len(node.children) :
        LET child == node.children[i]
        IN  /\ Len(child.quantityFromParent) = 1
            /\ \E l \in links :
                   /\ l.parentId = node.part.id
                   /\ l.childId = child.part.id
                   /\ l.quantity = child.quantityFromParent[1]
            /\ QuantitiesFromEdges(child)

\* C20: in every successful getTree response the root has no
\* quantityFromParent, and every other node's quantityFromParent is the
\* quantity of the edge from its parent node's part to its own part.
C20_QuantityFromParent ==
    TreeReturned =>
        /\ resp.value[1].tree.quantityFromParent = <<>>
        /\ QuantitiesFromEdges(resp.value[1].tree)

\* C20 witness: a returned tree has a node two levels below the root.
C20_Witness ==
    /\ TreeReturned
    /\ \E i \in 1..Len(resp.value[1].tree.children) :
           resp.value[1].tree.children[i].children # <<>>

====
